---- MODULE Spec2Model ----
(***************************************************************************)
(* A model of the chatbot backend under src/LangchainBackend/app: the      *)
(* intent classifier (agents/classifier_agent.py and the inline classifier *)
(* of main.py's /chat handler), the query router (agents/database_agent.py *)
(* and main.py), schema inference (agents/database_agent.py), the data    *)
(* adapter, the analysis-type detector and the response sanitizer          *)
(* (agents/analysis_agent.py).                                             *)
(*                                                                         *)
(* Text is modelled as a sequence of one-character strings, so that the    *)
(* string operations of the code (lower, split, in, endswith, replace, the *)
(* regular expressions, json.loads) are computed character by character.   *)
(***************************************************************************)
EXTENDS Integers, Sequences, FiniteSets, TLC

----------------------------------------------------------------------------
(* Python str operations *)

UPPER == <<"A","B","C","D","E","F","G","H","I","J","K","L","M",
           "N","O","P","Q","R","S","T","U","V","W","X","Y","Z">>
LOWERCASE == <<"a","b","c","d","e","f","g","h","i","j","k","l","m",
               "n","o","p","q","r","s","t","u","v","w","x","y","z">>
DIGITS == <<"0","1","2","3","4","5","6","7","8","9">>

\* str.lower() on one character
lower_char(c) ==
    IF \E i \in DOMAIN UPPER : UPPER[i] = c
    THEN LOWERCASE[CHOOSE i \in DOMAIN UPPER : UPPER[i] = c]
    ELSE c

\* str.lower()
lower(s) == [i \in 1..Len(s) |-> lower_char(s[i])]

\* s[i:i+len(sub)] == sub  (i is 1-based)
StartsAt(sub, s, i) ==
    /\ i >= 1
    /\ i + Len(sub) - 1 <= Len(s)
    /\ \A k \in 1..Len(sub) : s[i + k - 1] = sub[k]

\* Python's  sub in s  on strings
Contains(sub, s) == \E i \in 1..(Len(s) - Len(sub) + 1) : StartsAt(sub, s, i)

\* str.endswith
endswith(s, suffix) ==
    Len(suffix) <= Len(s) /\ StartsAt(suffix, s, Len(s) - Len(suffix) + 1)

\* Python's  x in list
InList(x, list) == \E i \in 1..Len(list) : list[i] = x

\* any(keyword in text for keyword in keywords)
AnyIn(keywords, text) == \E i \in 1..Len(keywords) : Contains(keywords[i], text)

\* the whitespace of str.split(), str.strip() and the regex class \s
IsSpace(c) == c \in {" ", "\t", "\n", "\r"}

\* the least element of a non-empty set of indices
Least(S) == CHOOSE i \in S : \A j \in S : i <= j

\* str.split(): the maximal runs of non-whitespace characters, in order
\* (one step of the recursion per word)
RECURSIVE SplitFrom(_, _)
SplitFrom(s, i) ==
    LET starts == {j \in i..Len(s) : ~IsSpace(s[j])} IN
    IF starts = {} THEN <<>>
    ELSE LET b == Least(starts)
             ends == {j \in b..Len(s) : IsSpace(s[j])}
             e == IF ends = {} THEN Len(s) + 1 ELSE Least(ends)
         IN  <<SubSeq(s, b, e - 1)>> \o SplitFrom(s, e)

split(s) == SplitFrom(s, 1)

\* str.replace(old, new): leftmost non-overlapping occurrences (old
\* non-empty; one step of the recursion per occurrence)
RECURSIVE ReplaceFrom(_, _, _, _)
ReplaceFrom(s, i, old, new) ==
    LET found == {j \in i..Len(s) : StartsAt(old, s, j)} IN
    IF found = {} THEN SubSeq(s, i, Len(s))
    ELSE SubSeq(s, i, Least(found) - 1) \o new
         \o ReplaceFrom(s, Least(found) + Len(old), old, new)

replace(s, old, new) == ReplaceFrom(s, 1, old, new)

\* str(n) for an int n >= 0
RECURSIVE IntText(_)
IntText(n) == IF n < 10 THEN <<DIGITS[n + 1]>> ELSE Append(IntText(n \div 10), DIGITS[(n % 10) + 1])

\* ','.join(parts) and friends
RECURSIVE join(_, _)
join(sep, parts) ==
    IF parts = <<>> THEN <<>>
    ELSE IF Len(parts) = 1 THEN parts[1]
    ELSE parts[1] \o sep \o join(sep, Tail(parts))

----------------------------------------------------------------------------
(* Python values as they come out of json.loads.  Every value is a record  *)
(* of the same shape: t is the Python type, b the bool, s the str, n the   *)
(* int (for a dict: its number of entries).                                *)

VNone      == [t |-> "NoneType", b |-> FALSE, s |-> <<>>, n |-> 0]
VBool(b)   == [t |-> "bool",     b |-> b,     s |-> <<>>, n |-> 0]
VStr(s)    == [t |-> "str",      b |-> FALSE, s |-> s,    n |-> 0]
VInt(n)    == [t |-> "int",      b |-> FALSE, s |-> <<>>, n |-> n]
VDict(n)   == [t |-> "dict",     b |-> FALSE, s |-> <<>>, n |-> n]

\* Python truthiness: bool(value)
Truthy(v) ==
    CASE v.t = "NoneType" -> FALSE
      [] v.t = "bool"     -> v.b
      [] v.t = "str"      -> v.s # <<>>
      [] v.t = "int"      -> v.n # 0
      [] OTHER            -> v.n # 0

\* A dict is the sequence of its items [k, v] in insertion order, keys unique.
HasKey(d, k) == \E i \in 1..Len(d) : d[i].k = k

\* d[k] for a key that is present
Get(d, k) == d[CHOOSE i \in 1..Len(d) : d[i].k = k].v

\* d.get(k): None when the key is absent
DictGet(d, k) == IF HasKey(d, k) THEN Get(d, k) ELSE VNone

\* d.get(k, default)
DictGetDefault(d, k, default) == IF HasKey(d, k) THEN Get(d, k) ELSE default

\* d[k] = v: an existing key keeps its place, a new key goes last
DictSet(d, k, v) ==
    IF HasKey(d, k)
    THEN [i \in 1..Len(d) |-> IF d[i].k = k THEN [k |-> k, v |-> v] ELSE d[i]]
    ELSE Append(d, [k |-> k, v |-> v])

Keys(d) == {d[i].k : i \in 1..Len(d)}

----------------------------------------------------------------------------
(* json.loads, for the texts of this model: objects, strings without       *)
(* backslash escapes, integers, true, false, null and JSON whitespace.     *)
(* A parse result is [ok, pos, val, items]: pos is the index after the     *)
(* value, items the entries of a parsed object.                            *)

s_true  == <<"t","r","u","e">>
s_false == <<"f","a","l","s","e">>
s_null  == <<"n","u","l","l">>

ParseFail == [ok |-> FALSE, pos |-> 0, val |-> VNone, items |-> <<>>]
ParseOk(pos, val, items) == [ok |-> TRUE, pos |-> pos, val |-> val, items |-> items]

\* json.decoder.WHITESPACE.match(s, i).end()
RECURSIVE SkipWs(_, _)
SkipWs(s, i) ==
    IF i <= Len(s) /\ s[i] \in {" ", "\t", "\n", "\r"} THEN SkipWs(s, i + 1) ELSE i

IsDigit(c) == \E d \in DOMAIN DIGITS : DIGITS[d] = c
DigitValue(c) == (CHOOSE d \in DOMAIN DIGITS : DIGITS[d] = c) - 1

\* the index after the run of digits that starts at i
RECURSIVE SkipDigits(_, _)
SkipDigits(s, i) == IF i <= Len(s) /\ IsDigit(s[i]) THEN SkipDigits(s, i + 1) ELSE i

\* int() of the digits s[i..j-1]
RECURSIVE DigitsValue(_, _, _, _)
DigitsValue(s, i, j, acc) ==
    IF i >= j THEN acc ELSE DigitsValue(s, i + 1, j, acc * 10 + DigitValue(s[i]))

\* json.decoder.scanstring with strict=True; s[i] is the opening quote.
\* A control character inside the string is an error.
ScanString(s, i) ==
    IF \E j \in (i + 1)..Len(s) : s[j] = "\""
    THEN LET j == CHOOSE j \in (i + 1)..Len(s) :
                      /\ s[j] = "\""
                      /\ \A m \in (i + 1)..(j - 1) : s[m] # "\""
             body == SubSeq(s, i + 1, j - 1)
         IN  IF \E m \in 1..Len(body) : body[m] \in {"\n", "\t", "\r"}
             THEN ParseFail
             ELSE ParseOk(j + 1, VStr(body), <<>>)
    ELSE ParseFail

\* json.scanner NUMBER_RE: -?(0|[1-9]\d*), integers only
ScanNumber(s, i) ==
    LET neg == s[i] = "-"
        d   == IF neg THEN i + 1 ELSE i
    IN  IF d > Len(s) \/ ~IsDigit(s[d]) THEN ParseFail
        ELSE LET e == IF s[d] = "0" THEN d + 1 ELSE SkipDigits(s, d)
                 n == DigitsValue(s, d, e, 0)
             IN  ParseOk(e, VInt(IF neg THEN 0 - n ELSE n), <<>>)

RECURSIVE ParseValue(_, _), ParseMembers(_, _, _)

\* json.decoder.JSONObject after the opening brace: s[i] is the quote that
\* opens the next key, acc the entries parsed so far
ParseMembers(s, i, acc) ==
    LET key == ScanString(s, i) IN
    IF ~key.ok THEN ParseFail
    ELSE LET c == SkipWs(s, key.pos) IN
         IF c > Len(s) \/ s[c] # ":" THEN ParseFail
         ELSE LET value == ParseValue(s, SkipWs(s, c + 1)) IN
              IF ~value.ok THEN ParseFail
              ELSE LET pairs == DictSet(acc, key.val.s, value.val)
                       e == SkipWs(s, value.pos)
                   IN  IF e > Len(s) THEN ParseFail
                       ELSE IF s[e] = "}" THEN ParseOk(e + 1, VDict(Len(pairs)), pairs)
                       ELSE IF s[e] # "," THEN ParseFail
                       ELSE LET k == SkipWs(s, e + 1) IN
                            IF k > Len(s) \/ s[k] # "\"" THEN ParseFail
                            ELSE ParseMembers(s, k, pairs)

\* json.decoder.JSONObject; s[i] is the opening brace
ParseObject(s, i) ==
    LET k == SkipWs(s, i + 1) IN
    IF k > Len(s) THEN ParseFail
    ELSE IF s[k] = "}" THEN ParseOk(k + 1, VDict(0), <<>>)
    ELSE IF s[k] # "\"" THEN ParseFail
    ELSE ParseMembers(s, k, <<>>)

\* json.scanner.py_make_scanner._scan_once
ParseValue(s, i) ==
    IF i > Len(s) THEN ParseFail
    ELSE IF s[i] = "\"" THEN ScanString(s, i)
    ELSE IF s[i] = "{" THEN ParseObject(s, i)
    ELSE IF StartsAt(s_null, s, i) THEN ParseOk(i + 4, VNone, <<>>)
    ELSE IF StartsAt(s_true, s, i) THEN ParseOk(i + 4, VBool(TRUE), <<>>)
    ELSE IF StartsAt(s_false, s, i) THEN ParseOk(i + 5, VBool(FALSE), <<>>)
    ELSE IF IsDigit(s[i]) \/ s[i] = "-" THEN ScanNumber(s, i)
    ELSE ParseFail

\* json.loads(s): [ok, pos, val, items]; ok = FALSE is json.JSONDecodeError
\* (leading whitespace, one value, trailing whitespace, nothing more)
json_loads(s) ==
    LET r == ParseValue(s, SkipWs(s, 1)) IN
    IF r.ok /\ SkipWs(s, r.pos) = Len(s) + 1 THEN r ELSE ParseFail

----------------------------------------------------------------------------
(* The regular expressions of the classifiers *)

\* re.search(r'\{.*\}', text, re.DOTALL): from the first "{" to the last "}"
\* after it; <<>> when there is no match (a match is never empty)
json_match(text) ==
    IF \E i \in 1..Len(text) : text[i] = "{" /\ \E j \in (i + 1)..Len(text) : text[j] = "}"
    THEN LET i == CHOOSE i \in 1..Len(text) :
                      text[i] = "{" /\ \A m \in 1..(i - 1) : text[m] # "{"
             j == CHOOSE j \in 1..Len(text) :
                      text[j] = "}" /\ \A m \in (j + 1)..Len(text) : text[m] # "}"
         IN  SubSeq(text, i, j)
    ELSE <<>>

\* re.sub(r'//.*?(\n|$)|/\*.*?\*/', '', s, flags=re.DOTALL): a // comment
\* runs through the first newline, or to the end of the text when there is
\* none; a /* comment runs through the first */ and is kept when unclosed
\* (one step of the recursion per comment)
RECURSIVE StripCommentsFrom(_, _)
StripCommentsFrom(s, i) ==
    LET opens == {j \in i..Len(s) :
                     \/ StartsAt(<<"/", "/">>, s, j)
                     \/ /\ StartsAt(<<"/", "*">>, s, j)
                        /\ \E m \in (j + 2)..Len(s) : StartsAt(<<"*", "/">>, s, m)}
    IN  IF opens = {} THEN SubSeq(s, i, Len(s))
        ELSE LET b == Least(opens)
                 newlines == {j \in (b + 2)..Len(s) : s[j] = "\n"}
                 closes == {j \in (b + 2)..Len(s) : StartsAt(<<"*", "/">>, s, j)}
             IN  SubSeq(s, i, b - 1) \o
                 (IF StartsAt(<<"/", "/">>, s, b)
                  THEN IF newlines = {} THEN <<>>
                       ELSE StripCommentsFrom(s, Least(newlines) + 1)
                  ELSE StripCommentsFrom(s, Least(closes) + 2))

strip_comments(s) == StripCommentsFrom(s, 1)

\* one match of r'"([^"]+)"\s*:\s*("[^"]*"|true|false|\d+|null)' that starts
\* at i: [ok, pos, k, v] with pos the index after the match
RECURSIVE SkipSpace(_, _)
SkipSpace(s, i) == IF i <= Len(s) /\ IsSpace(s[i]) THEN SkipSpace(s, i + 1) ELSE i

NoPair == [ok |-> FALSE, pos |-> 0, k |-> <<>>, v |-> <<>>]

PairAt(s, i) ==
    IF i > Len(s) \/ s[i] # "\"" \/ ~\E j \in (i + 2)..Len(s) : s[j] = "\"" THEN NoPair
    ELSE IF s[i + 1] = "\"" THEN NoPair
    ELSE LET q == CHOOSE j \in (i + 2)..Len(s) :
                      s[j] = "\"" /\ \A m \in (i + 1)..(j - 1) : s[m] # "\""
             c == SkipSpace(s, q + 1)
         IN  IF c > Len(s) \/ s[c] # ":" THEN NoPair
             ELSE LET v == SkipSpace(s, c + 1) IN
                  IF v > Len(s) THEN NoPair
                  ELSE IF s[v] = "\"" /\ \E j \in (v + 1)..Len(s) : s[j] = "\""
                       THEN LET e == CHOOSE j \in (v + 1)..Len(s) :
                                         s[j] = "\"" /\ \A m \in (v + 1)..(j - 1) : s[m] # "\""
                            IN  [ok |-> TRUE, pos |-> e + 1,
                                 k |-> SubSeq(s, i + 1, q - 1), v |-> SubSeq(s, v, e)]
                  ELSE IF StartsAt(s_true, s, v)
                       THEN [ok |-> TRUE, pos |-> v + 4, k |-> SubSeq(s, i + 1, q - 1), v |-> s_true]
                  ELSE IF StartsAt(s_false, s, v)
                       THEN [ok |-> TRUE, pos |-> v + 5, k |-> SubSeq(s, i + 1, q - 1), v |-> s_false]
                  ELSE IF IsDigit(s[v])
                       THEN [ok |-> TRUE, pos |-> SkipDigits(s, v),
                             k |-> SubSeq(s, i + 1, q - 1), v |-> SubSeq(s, v, SkipDigits(s, v) - 1)]
                  ELSE IF StartsAt(s_null, s, v)
                       THEN [ok |-> TRUE, pos |-> v + 4, k |-> SubSeq(s, i + 1, q - 1), v |-> s_null]
                  ELSE NoPair

\* re.findall of that pattern: the non-overlapping matches, left to right
\* (one step of the recursion per match)
RECURSIVE FindPairsFrom(_, _)
FindPairsFrom(s, i) ==
    LET starts == {j \in i..Len(s) : s[j] = "\"" /\ PairAt(s, j).ok} IN
    IF starts = {} THEN <<>>
    ELSE <<PairAt(s, Least(starts))>> \o FindPairsFrom(s, PairAt(s, Least(starts)).pos)

find_pairs(s) == FindPairsFrom(s, 1)

\* '{' + ','.join([f'"{k}": {v}' for k, v in pairs]) + '}'
clean_json(pairs) ==
    <<"{">> \o join(<<",">>, [p \in 1..Len(pairs) |->
                 <<"\"">> \o pairs[p].k \o <<"\"", ":", " ">> \o pairs[p].v]) \o <<"}">>

----------------------------------------------------------------------------
(* Vocabulary of the classifiers *)

k_is_database_question == <<"i","s","_","d","a","t","a","b","a","s","e","_",
                            "q","u","e","s","t","i","o","n">>
k_collection == <<"c","o","l","l","e","c","t","i","o","n">>
k_query_type == <<"q","u","e","r","y","_","t","y","p","e">>

w_list_collections == <<"l","i","s","t","_","c","o","l","l","e","c","t","i","o","n","s">>
w_query_documents == <<"q","u","e","r","y","_","d","o","c","u","m","e","n","t","s">>
w_list == <<"l","i","s","t">>
w_collections == <<"c","o","l","l","e","c","t","i","o","n","s">>
s_True == <<"T","r","u","e">>
s_False == <<"F","a","l","s","e">>

\* ["database", "mongodb", "collection", "data", "query", "find", "search", "list"]
db_keywords ==
    << <<"d","a","t","a","b","a","s","e">>, <<"m","o","n","g","o","d","b">>,
       k_collection, <<"d","a","t","a">>, <<"q","u","e","r","y">>,
       <<"f","i","n","d">>, <<"s","e","a","r","c","h">>, w_list >>

\* ["from", "where", "what", "when", "how", "show", "get", "find", "query"]
common_words ==
    << <<"f","r","o","m">>, <<"w","h","e","r","e">>, <<"w","h","a","t">>,
       <<"w","h","e","n">>, <<"h","o","w">>, <<"s","h","o","w">>,
       <<"g","e","t">>, <<"f","i","n","d">>, <<"q","u","e","r","y">> >>

\* ["database", "db", "is_database"]
db_key_markers ==
    << <<"d","a","t","a","b","a","s","e">>, <<"d","b">>,
       <<"i","s","_","d","a","t","a","b","a","s","e">> >>

\* ["yes", "true", "1"]
yes_values == << <<"y","e","s">>, s_true, <<"1">> >>

\* len(word) > 3: the shortest word the fallback takes for a collection name
MinWordLen == 3

----------------------------------------------------------------------------
(* The keyword fallback shared by both classifiers *)

\* any(keyword in user_message.lower() for keyword in [...])
is_db_query(user_message) == AnyIn(db_keywords, lower(user_message))

\* "list_collections" if "list" in user_message.lower() else "query_documents"
fallback_query_type(user_message) ==
    IF Contains(w_list, lower(user_message))
    THEN VStr(w_list_collections) ELSE VStr(w_query_documents)

\* a fallback that leaves query_type out and reports yes or no as text
fallback_analysis_without_query_type(user_message, collection) ==
    << [k |-> k_is_database_question,
        v |-> VStr(IF is_db_query(user_message) THEN <<"y","e","s">> ELSE <<"n","o">>)],
       [k |-> k_collection, v |-> collection] >>

\* the dict literal of the fallbacks, collection being None or the guess
fallback_analysis(user_message, collection) ==
    << [k |-> k_is_database_question, v |-> VBool(is_db_query(user_message))],
       [k |-> k_collection, v |-> collection],
       [k |-> k_query_type, v |-> fallback_query_type(user_message)] >>

----------------------------------------------------------------------------
(* ClassifierAgent.classify_query *)

\* the for loop over enumerate(words): i is the 1-based position, so the
\* code's i > 0 is i > 1 here
RECURSIVE guess_from(_, _)
guess_from(words, i) ==
    IF i > Len(words) THEN VNone
    ELSE IF Len(words[i]) > MinWordLen /\ i > 1 /\ ~InList(words[i], common_words)
         THEN IF ~endswith(words[i], <<"s">>)
              THEN VStr(Append(words[i], "s"))
              ELSE VStr(words[i])
         ELSE guess_from(words, i + 1)

guess_collection(user_message) == guess_from(split(lower(user_message)), 1)

\* the two or three str.replace calls that clean the matched text
fix_quotes(json_str) ==
    replace(replace(replace(json_str, <<"'">>, <<"\"">>), s_True, s_true),
            s_False, s_false)

\* the try block: [path, json].  path tells which branch built the dict:
\* "json" (json.loads), "no_match" (no brace span), "error" (the except)
classifier_parse(user_message, analysis_response) ==
    LET json_str == json_match(analysis_response) IN
    IF json_str # <<>>
    THEN LET r == json_loads(fix_quotes(json_str)) IN
         IF r.ok
         THEN [path |-> "json", json |-> r.items]
         ELSE [path |-> "error", json |-> fallback_analysis(user_message, VNone)]
    ELSE [path |-> "no_match",
          json |-> fallback_analysis(user_message, guess_collection(user_message))]

\* a pluralization that does not look at the last letter
resolve_always_appends(collection) ==
    IF Truthy(collection) /\ collection.t = "str" /\ collection.s # s_null
    THEN VStr(Append(collection.s, "s"))
    ELSE collection

\* the pluralization of one candidate: "Ensure collection name always ends
\* with 's' if it exists"
resolve(collection) ==
    IF /\ Truthy(collection)
       /\ collection.t = "str"
       /\ collection.s # s_null
       /\ ~endswith(collection.s, <<"s">>)
    THEN VStr(Append(collection.s, "s"))
    ELSE collection

\* the same on the dict that is returned
ensure_plural(analysis_json) ==
    IF resolve(DictGet(analysis_json, k_collection)) # DictGet(analysis_json, k_collection)
    THEN DictSet(analysis_json, k_collection, resolve(DictGet(analysis_json, k_collection)))
    ELSE analysis_json

----------------------------------------------------------------------------
(* The inline classifier of main.py's chat *)

\* the try block of chat: "pairs" is the second json.loads, of the pairs
\* that re.findall extracts
chat_parse(message, analysis_response) ==
    LET raw == json_match(analysis_response) IN
    IF raw # <<>>
    THEN LET json_str == fix_quotes(strip_comments(raw))
             r == json_loads(json_str)
         IN  IF r.ok THEN [path |-> "json", json |-> r.items]
             ELSE LET pairs == find_pairs(json_str) IN
                  IF pairs # <<>> /\ json_loads(clean_json(pairs)).ok
                  THEN [path |-> "pairs", json |-> json_loads(clean_json(pairs)).items]
                  ELSE [path |-> "error", json |-> fallback_analysis(message, VNone)]
    ELSE [path |-> "no_match", json |-> fallback_analysis(message, VNone)]

\* a chain that tests "collection" before the database markers
normalized_key_collection_first(key) ==
    IF Contains(k_collection, lower(key)) THEN k_collection
    ELSE IF AnyIn(db_key_markers, lower(key)) THEN k_is_database_question
    ELSE IF Contains(<<"q","u","e","r","y">>, lower(key))
            \/ Contains(<<"t","y","p","e">>, lower(key)) THEN k_query_type
    ELSE <<>>

\* the if / elif chain on key_lower: the field a key is assigned to, <<>>
\* for a key that is dropped
normalized_key(key) ==
    IF AnyIn(db_key_markers, lower(key)) THEN k_is_database_question
    ELSE IF Contains(k_collection, lower(key)) THEN k_collection
    ELSE IF Contains(<<"q","u","e","r","y">>, lower(key))
            \/ Contains(<<"t","y","p","e">>, lower(key)) THEN k_query_type
    ELSE <<>>

\* value if isinstance(value, bool)
\* else isinstance(value, str) and value.lower() in ["yes", "true", "1"]
as_bool(value) ==
    IF value.t = "bool" THEN value
    ELSE VBool(value.t = "str" /\ InList(lower(value.s), yes_values))

\* the for loop over analysis_json.items()
RECURSIVE normalize_from(_, _, _)
normalize_from(items, i, normalized_json) ==
    IF i > Len(items) THEN normalized_json
    ELSE LET field == normalized_key(items[i].k) IN
         normalize_from(items, i + 1,
             IF field = k_is_database_question
             THEN DictSet(normalized_json, field, as_bool(items[i].v))
             ELSE IF field # <<>>
                  THEN DictSet(normalized_json, field, items[i].v)
                  ELSE normalized_json)

normalize_keys(analysis_json) == normalize_from(analysis_json, 1, <<>>)

\* "Ensure all required keys exist"
ensure_required_keys(normalized_json) ==
    LET a == IF HasKey(normalized_json, k_is_database_question) THEN normalized_json
             ELSE DictSet(normalized_json, k_is_database_question, VBool(FALSE))
        b == IF HasKey(a, k_collection) THEN a ELSE DictSet(a, k_collection, VNone)
    IN  IF HasKey(b, k_query_type) THEN b
        ELSE DictSet(b, k_query_type, VStr(w_query_documents))

----------------------------------------------------------------------------
(* The inputs of the model: user messages, texts the generative-text       *)
(* engine may answer with, and database catalogs.                          *)

w_orders == <<"o","r","d","e","r","s">>
w_order  == <<"o","r","d","e","r">>
w_users  == <<"u","s","e","r","s">>
w_logs   == <<"l","o","g","s">>
w_foos   == <<"f","o","o","s">>

Quoted(s) == <<"\"">> \o s \o <<"\"">>

\* the text of a JSON object with the three fields, as the prompt asks for
DecisionText(is_db, collection, query_type) ==
    <<"{">> \o Quoted(k_is_database_question) \o <<":", " ">> \o is_db
    \o <<",", " ">> \o Quoted(k_collection) \o <<":", " ">> \o collection
    \o <<",", " ">> \o Quoted(k_query_type) \o <<":", " ">> \o Quoted(query_type)
    \o <<"}">>

resp_orders == DecisionText(s_true, Quoted(w_orders), w_query_documents)
resp_order == DecisionText(s_true, Quoted(w_order), w_query_documents)
resp_not_db == DecisionText(s_false, s_null, w_query_documents)
resp_null_string == DecisionText(s_true, Quoted(s_null), w_query_documents)
resp_int_collection == DecisionText(s_true, <<"5">>, w_query_documents)
resp_empty_collection == DecisionText(s_true, Quoted(<<>>), w_query_documents)
resp_logs == DecisionText(s_true, Quoted(w_logs), w_query_documents)
resp_list_foos == DecisionText(s_true, Quoted(w_foos), w_list_collections)

msg_show_orders ==
    <<"s","h","o","w"," ","m","e"," ","o","r","d","e","r","s">>
msg_joke ==
    <<"t","e","l","l"," ","m","e"," ","a"," ","j","o","k","e">>
msg_list_products ==
    <<"l","i","s","t"," ","a","l","l"," ","p","r","o","d","u","c","t","s">>
msg_find_user ==
    <<"f","i","n","d"," ","u","s","e","r"," ","d","a","t","a">>
msg_query_collection_order ==
    <<"Q","u","e","r","y"," ","c","o","l","l","e","c","t","i","o","n"," ",
      "o","r","d","e","r">>
msg_schema_logs ==
    <<"w","h","a","t"," ","i","s"," ","t","h","e"," ","s","c","h","e","m",
      "a"," ","o","f"," ","l","o","g","s">>

resp_single_quotes ==
    <<"{","'","i","s","_","d","a","t","a","b","a","s","e","_","q","u","e",
      "s","t","i","o","n","'",":"," ","T","r","u","e",","," ","'","c","o",
      "l","l","e","c","t","i","o","n","'",":"," ","'","u","s","e","r","'",
      ","," ","'","q","u","e","r","y","_","t","y","p","e","'",":"," ","'",
      "l","i","s","t","_","c","o","l","l","e","c","t","i","o","n","s","'",
      "}">>
resp_no_json ==
    <<"I"," ","a","m"," ","n","o","t"," ","s","u","r","e",".">>
resp_prose ==
    <<"S","u","r","e","!"," ","{","\"","i","s","_","d","a","t","a","b",
      "a","s","e","_","q","u","e","s","t","i","o","n","\"",":"," ","t",
      "r","u","e",","," ","\"","c","o","l","l","e","c","t","i","o","n",
      "\"",":"," ","\"","l","o","g","s","\"","}"," ","H","o","p","e"," ",
      "t","h","i","s"," ","h","e","l","p","s",".">>
resp_variant_keys ==
    <<"{","\"","d","b","\"",":"," ","\"","y","e","s","\"",","," ","\"",
      "c","o","l","l","e","c","t","i","o","n","_","n","a","m","e","\"",
      ":"," ","\"","o","r","d","e","r","\"","}">>
resp_db_collection ==
    <<"{","\"","d","b","_","c","o","l","l","e","c","t","i","o","n","\"",
      ":"," ","\"","o","r","d","e","r","s","\"","}">>
resp_empty_object ==
    <<"{","}">>
resp_comment ==
    <<"{","\"","i","s","_","d","a","t","a","b","a","s","e","_","q","u",
      "e","s","t","i","o","n","\"",":"," ","t","r","u","e",","," ","/",
      "/"," ","y","e","s","\n"," ","\"","c","o","l","l","e","c","t","i",
      "o","n","\"",":"," ","\"","o","r","d","e","r","s","\"",","," ","\"",
      "q","u","e","r","y","_","t","y","p","e","\"",":"," ","\"","q","u",
      "e","r","y","_","d","o","c","u","m","e","n","t","s","\"","}">>
resp_trailing_comma ==
    <<"{","\"","i","s","_","d","a","t","a","b","a","s","e","_","q","u",
      "e","s","t","i","o","n","\"",":"," ","t","r","u","e",","," ","\"",
      "c","o","l","l","e","c","t","i","o","n","\"",":"," ","\"","o","r",
      "d","e","r","\"",",","}">>
resp_not_json ==
    <<"{","i","s"," ","t","h","i","s"," ","a"," ","d","a","t","a","b","a",
      "s","e"," ","q","u","e","s","t","i","o","n","}">>
resp_two_objects ==
    <<"{","\"","c","o","l","l","e","c","t","i","o","n","\"",":"," ","\"",
      "u","s","e","r","s","\"",","," ","\"","q","u","e","r","y","_","t",
      "y","p","e","\"",":"," ","\"","l","i","s","t","_","c","o","l","l",
      "e","c","t","i","o","n","s","\"","}"," ","o","r"," ","{","\"","c",
      "o","l","l","e","c","t","i","o","n","\"",":"," ","\"","o","r","d",
      "e","r","s","\"","}">>
resp_mixed_case ==
    <<"{","\"","I","s","_","D","a","t","a","b","a","s","e","\"",":"," ",
      "\"","T","r","u","e","\"",","," ","\"","C","o","l","l","e","c","t",
      "i","o","n","\"",":"," ","\"","f","o","o","\"",","," ","\"","T","y",
      "p","e","\"",":"," ","\"","g","e","t","_","d","o","c","u","m","e",
      "n","t","\"","}">>
resp_apostrophe ==
    <<"{","\"","n","o","t","e","\"",":"," ","\"","i","t","'","s"," ","a",
      " ","q","u","e","s","t","i","o","n","\"","}">>
resp_block_comment ==
    <<"{","\"","i","s","_","d","a","t","a","b","a","s","e","_","q","u",
      "e","s","t","i","o","n","\"",":"," ","1",","," ","\"","c","o","l",
      "l","e","c","t","i","o","n","\"",":"," ","\"","u","s","e","r","\"",
      " ","/","*"," ","g","u","e","s","s"," ","*","/","}">>

Messages ==
    { msg_show_orders, msg_joke, msg_list_products, msg_find_user,
      msg_query_collection_order, msg_schema_logs }

Responses ==
    { resp_orders, resp_order, resp_not_db, resp_null_string,
      resp_int_collection, resp_empty_collection, resp_list_foos, resp_logs,
      resp_single_quotes, resp_no_json, resp_prose, resp_variant_keys,
      resp_db_collection, resp_empty_object, resp_comment,
      resp_trailing_comma, resp_not_json, resp_two_objects,
      resp_mixed_case, resp_apostrophe, resp_block_comment }

\* what client.get_collections() may return
Catalogs == { <<w_users, w_orders>>, <<w_order, w_logs>>, <<>> }

----------------------------------------------------------------------------
(* The database collaborator (mongodb_utils.MongoDBClient) *)

\* client.query_collection(collection_name, None, 10, 0): the limit
QUERY_LIMIT == 10
\* ... and the skip
QUERY_SKIP == 0

\* the number of documents a non-empty collection of the model holds
StoredCount == 12

\* the documents of a collection, in cursor order ("logs" holds none);
\* a document is known by its number
StoredDocuments(collection_name) ==
    IF collection_name = w_logs THEN <<>> ELSE [i \in 1..StoredCount |-> i]

\* a collaborator that returns every document of the collection
query_collection_unlimited(collection_name, limit, skip) == StoredDocuments(collection_name)

\* collection.find(query).limit(limit).skip(skip) with the match-all query
query_collection(collection_name, limit, skip) ==
    LET stored == StoredDocuments(collection_name)
        left == IF Len(stored) > skip THEN Len(stored) - skip ELSE 0
        n == IF left < limit THEN left ELSE limit
    IN  SubSeq(stored, skip + 1, skip + n)

\* which collaborator call of a request raises, if any
DatabaseFaults == {"none", "get_collections", "query_collection"}

----------------------------------------------------------------------------
(* Schema inference: DatabaseAgent._extract_schema_from_documents,          *)
(* _process_document_for_schema and _get_type_name.  A document value is a  *)
(* record [t, b, n, s, items]: t is the Python type, items the elements of  *)
(* a list or the entries [k, v] of a dict in insertion order, s the text of *)
(* a str, the digits of a float, or the name of any other type.  A schema   *)
(* is a dict: the sequence of its entries [k, v] in insertion order, k the  *)
(* field name and v the field's info; keys is the set of the keys the info  *)
(* dict has.  The "example" of a field is not modelled.                     *)

PyNone        == [t |-> "NoneType", b |-> FALSE, n |-> 0, s |-> <<>>, items |-> <<>>]
PyBool(b)     == [t |-> "bool",     b |-> b,     n |-> 0, s |-> <<>>, items |-> <<>>]
PyInt(n)      == [t |-> "int",      b |-> FALSE, n |-> n, s |-> <<>>, items |-> <<>>]
PyFloat(s)    == [t |-> "float",    b |-> FALSE, n |-> 0, s |-> s,    items |-> <<>>]
PyStr(s)      == [t |-> "str",      b |-> FALSE, n |-> 0, s |-> s,    items |-> <<>>]
PyList(items) == [t |-> "list",     b |-> FALSE, n |-> 0, s |-> <<>>, items |-> items]
PyDict(items) == [t |-> "dict",     b |-> FALSE, n |-> 0, s |-> <<>>, items |-> items]
PyOther(name) == [t |-> "other",    b |-> FALSE, n |-> 0, s |-> name, items |-> <<>>]

\* one entry of a dict
Entry(k, v) == [k |-> k, v |-> v]

n_null == <<"n","u","l","l">>
n_boolean == <<"b","o","o","l","e","a","n">>
n_integer == <<"i","n","t","e","g","e","r">>
n_number == <<"n","u","m","b","e","r">>
n_string == <<"s","t","r","i","n","g">>
n_array == <<"a","r","r","a","y">>
n_object == <<"o","b","j","e","c","t">>

\* a naming that tests int before bool and looks at the last element
RECURSIVE get_type_name_int_first(_)
get_type_name_int_first(value) ==
    CASE value.t = "NoneType" -> n_null
      [] value.t \in {"int", "bool"} -> n_integer
      [] value.t = "float" -> n_number
      [] value.t = "str" -> n_string
      [] value.t = "list" ->
            IF value.items = <<>> THEN n_array
            ELSE n_array \o <<"<">>
                    \o get_type_name_int_first(value.items[Len(value.items)]) \o <<">">>
      [] value.t = "dict" -> n_object
      [] OTHER -> value.s

\* DatabaseAgent._get_type_name(value)
RECURSIVE get_type_name(_)
get_type_name(value) ==
    IF value.t = "NoneType" THEN n_null
    ELSE IF value.t = "bool" THEN n_boolean
    ELSE IF value.t = "int" THEN n_integer
    ELSE IF value.t = "float" THEN n_number
    ELSE IF value.t = "str" THEN n_string
    ELSE IF value.t = "list"
         THEN IF value.items = <<>> THEN n_array
              ELSE n_array \o <<"<">> \o get_type_name(value.items[1]) \o <<">">>
    ELSE IF value.t = "dict" THEN n_object
    ELSE value.s

\* the info dict of a field that is seen for the first time
new_field(value) ==
    [keys |-> {"type", "count", "example"}, type |-> get_type_name(value), count |-> 1,
     occurrence_rate |-> <<>>, required |-> FALSE]

\* schema[field]["count"] += 1
count_field(schema, field) ==
    DictSet(schema, field, [Get(schema, field) EXCEPT !.count = @ + 1])

type_separator == <<" ","|"," ">>

\* "Update type if it's a union type"
union_type(current_type, new_type) ==
    IF current_type # new_type THEN current_type \o type_separator \o new_type
    ELSE current_type

\* the loops over value.items() and value[0].items(): prefix is
\* f"{field_name}." or f"{field_name}[]."
RECURSIVE process_nested(_, _, _, _)
process_nested(schema, prefix, items, i) ==
    IF i > Len(items) THEN schema
    ELSE LET nested_field == prefix \o items[i].k IN
         process_nested(IF ~HasKey(schema, nested_field)
                        THEN DictSet(schema, nested_field, new_field(items[i].v))
                        ELSE count_field(schema, nested_field),
                        prefix, items, i + 1)

\* a loop body that samples the last element of an array, not the first
process_field_last_element(schema, field_name, value) ==
    LET seen == IF ~HasKey(schema, field_name)
                THEN DictSet(schema, field_name, new_field(value))
                ELSE LET counted == count_field(schema, field_name) IN
                     DictSet(counted, field_name,
                             [Get(counted, field_name) EXCEPT
                                 !.type = union_type(@, get_type_name(value))])
    IN  IF value.t = "dict"
        THEN process_nested(seen, field_name \o <<".">>, value.items, 1)
        ELSE IF value.t = "list" /\ value.items # <<>>
                /\ value.items[Len(value.items)].t = "dict"
        THEN process_nested(
                 DictSet(seen, field_name,
                         [Get(seen, field_name) EXCEPT !.keys = @ \cup {"array_items"}]),
                 field_name \o <<"[","]",".">>, value.items[Len(value.items)].items, 1)
        ELSE seen

\* the body of the loop over doc.items(), for one key and its value
process_field(schema, field_name, value) ==
    LET seen == IF ~HasKey(schema, field_name)
                THEN DictSet(schema, field_name, new_field(value))
                ELSE LET counted == count_field(schema, field_name) IN
                     DictSet(counted, field_name,
                             [Get(counted, field_name) EXCEPT
                                 !.type = union_type(@, get_type_name(value))])
    IN  IF value.t = "dict"
        THEN process_nested(seen, field_name \o <<".">>, value.items, 1)
        ELSE IF value.t = "list" /\ value.items # <<>> /\ value.items[1].t = "dict"
        THEN process_nested(
                 DictSet(seen, field_name,
                         [Get(seen, field_name) EXCEPT !.keys = @ \cup {"array_items"}]),
                 field_name \o <<"[","]",".">>, value.items[1].items, 1)
        ELSE seen

\* DatabaseAgent._process_document_for_schema(doc, schema), from the i-th
\* entry of doc on
RECURSIVE process_document_for_schema(_, _, _)
process_document_for_schema(doc, schema, i) ==
    IF i > Len(doc.items) THEN schema
    ELSE process_document_for_schema(
             doc, process_field(schema, doc.items[i].k, doc.items[i].v), i + 1)

\* for doc in documents: self._process_document_for_schema(doc, schema)
RECURSIVE process_documents(_, _, _)
process_documents(documents, schema, d) ==
    IF d > Len(documents) THEN schema
    ELSE process_documents(documents,
                           process_document_for_schema(documents[d], schema, 1), d + 1)

\* f"{(count / total_docs) * 100:.1f}%".  The rate is rounded to one
\* decimal; with fewer than 16 documents it never lies halfway.
occurrence_rate(count, total_docs) ==
    LET tenths == (2000 * count + total_docs) \div (2 * total_docs) IN
    IntText(tenths \div 10) \o <<".">> \o IntText(tenths % 10) \o <<"%">>

m_no_documents ==
    <<"N","o"," ","d","o","c","u","m","e","n","t","s"," ","a","v","a","i","l","a","b","l","e"," ","t","o"," ","e","x","t","r","a","c","t"," ","s","c","h","e","m","a">>

NoMetadata ==
    [total_documents |-> 0, top_level_fields |-> <<>>, has_nested_fields |-> FALSE,
     has_array_fields |-> FALSE]

\* no schema: the value of a "schema" key that is not set
NoSchema == [keys |-> {}, message |-> <<>>, metadata |-> NoMetadata, fields |-> <<>>]

\* the names of the fields without "." and "[]" (top), or of the others
RECURSIVE SelectFields(_, _, _)
SelectFields(schema, i, top) ==
    IF i > Len(schema) THEN <<>>
    ELSE LET nested == Contains(<<".">>, schema[i].k) \/ Contains(<<"[","]">>, schema[i].k)
             rest == SelectFields(schema, i + 1, top)
         IN  IF top # nested THEN <<schema[i].k>> \o rest ELSE rest

\* a rating that sets required for a field that most documents have
rate_field_majority(info, total_docs) ==
    [info EXCEPT
        !.keys = @ \cup {"occurrence_rate", "required"},
        !.occurrence_rate = occurrence_rate(info.count, total_docs),
        !.required = (2 * info.count >= total_docs)]

\* "Add occurrence counts to determine if fields are required or optional":
\* the body of the loop over schema.items()
rate_field(info, total_docs) ==
    [info EXCEPT
        !.keys = @ \cup {"occurrence_rate", "required"},
        !.occurrence_rate = occurrence_rate(info.count, total_docs),
        !.required = (info.count = total_docs)]

\* _extract_schema_from_documents after its guard: the schema of the
\* documents with its metadata
build_schema(documents) ==
    LET schema == process_documents(documents, <<>>, 1)
        total_docs == Len(documents)
    IN  [NoSchema EXCEPT
            !.keys = {"metadata", "fields"},
            !.metadata =
                [total_documents |-> total_docs,
                 top_level_fields |-> SelectFields(schema, 1, TRUE),
                 has_nested_fields |->
                     \E i \in 1..Len(schema) : Contains(<<".">>, schema[i].k),
                 has_array_fields |->
                     \E i \in 1..Len(schema) : Contains(<<"[","]">>, schema[i].k)],
            !.fields = [i \in 1..Len(schema) |->
                           Entry(schema[i].k, rate_field(schema[i].v, total_docs))]]

\* an inference without the guard for no documents
extract_schema_unguarded(documents) == build_schema(documents)

\* DatabaseAgent._extract_schema_from_documents(documents)
extract_schema_from_documents(documents) ==
    IF documents = <<>>
    THEN [NoSchema EXCEPT !.keys = {"message"}, !.message = m_no_documents]
    ELSE build_schema(documents)

\* the documents handed to schema inference
f_x == <<"x">>
f_y == <<"y">>
f_a == <<"a">>
f_b == <<"b">>
f_t == <<"t">>
f_k == <<"k">>
f_a_b == <<"a",".","b">>
f_t_k == <<"t","[","]",".","k">>

\* {"x": 1}
doc_x_int == PyDict(<<Entry(f_x, PyInt(1))>>)
\* {"x": "a"}
doc_x_str == PyDict(<<Entry(f_x, PyStr(<<"a">>))>>)
\* {"x": 2, "y": True}
doc_x_int_y == PyDict(<<Entry(f_x, PyInt(2)), Entry(f_y, PyBool(TRUE))>>)
\* {"a": {"b": 1}, "a.b": 2}
doc_dotted == PyDict(<<Entry(f_a, PyDict(<<Entry(f_b, PyInt(1))>>)), Entry(f_a_b, PyInt(2))>>)
\* {"a": {"b": "s"}}
doc_nested_str == PyDict(<<Entry(f_a, PyDict(<<Entry(f_b, PyStr(<<"s">>))>>))>>)
\* {"t": [{"k": 1}, {"z": 2}], "t[].k": None}
doc_array ==
    PyDict(<<Entry(f_t, PyList(<<PyDict(<<Entry(f_k, PyInt(1))>>),
                                 PyDict(<<Entry(<<"z">>, PyInt(2))>>)>>)),
             Entry(f_t_k, PyNone)>>)
\* {"t": [], "f": 2.5, "o": datetime(...), "m": [1, "a"]}
doc_misc ==
    PyDict(<<Entry(f_t, PyList(<<>>)),
             Entry(<<"f">>, PyFloat(<<"2",".","5">>)),
             Entry(<<"o">>, PyOther(<<"d","a","t","e","t","i","m","e">>)),
             Entry(<<"m">>, PyList(<<PyInt(1), PyStr(<<"a">>)>>))>>)
\* {"t": [[1]], "x": None}
doc_matrix ==
    PyDict(<<Entry(f_t, PyList(<<PyList(<<PyInt(1)>>)>>)), Entry(f_x, PyNone)>>)
\* {}
doc_empty == PyDict(<<>>)
\* {"a": {"b": {"c": 1}}}
doc_deep ==
    PyDict(<<Entry(f_a, PyDict(<<Entry(f_b, PyDict(<<Entry(<<"c">>, PyInt(1))>>))>>))>>)

SampleDocuments ==
    { doc_x_int, doc_x_str, doc_x_int_y, doc_dotted, doc_nested_str, doc_array,
      doc_misc, doc_matrix, doc_empty, doc_deep }

\* the largest batch handed to schema inference
MaxDocuments == 3

----------------------------------------------------------------------------
(* The query routers: DatabaseAgent.query_database and the database branch *)
(* of chat.  db_data is the dict they build: keys is the set of its keys,  *)
(* the other fields the values of the keys that carry data.  A routing     *)
(* result is [db_data, db_calls, checked]: the collaborator calls made, in *)
(* order, and the value tested with  in collection_list  (None if no test  *)
(* was made).                                                              *)

e_could_not_access ==
    <<"C","o","u","l","d"," ","n","o","t"," ","a","c","c","e","s","s"," ",
      "d","a","t","a","b","a","s","e">>
e_collection ==
    <<"C","o","l","l","e","c","t","i","o","n"," ","'">>
e_not_found ==
    <<"'"," ","n","o","t"," ","f","o","u","n","d">>
e_could_not_query ==
    <<"C","o","u","l","d"," ","n","o","t"," ","q","u","e","r","y"," ","c",
      "o","l","l","e","c","t","i","o","n"," ","'">>
e_agent ==
    <<"A","g","e","n","t"," ","c","o","u","l","d"," ","n","o","t"," ","r",
      "e","t","r","i","e","v","e"," ","d","a","t","a">>
m_no_data ==
    <<"N","o"," ","s","p","e","c","i","f","i","c"," ","d","a","t","a"," ",
      "c","o","u","l","d"," ","b","e"," ","r","e","t","r","i","e","v","e",
      "d">>

\* ["schema", "structure", "fields", "keys", "data types", "format"]
schema_terms ==
    << <<"s","c","h","e","m","a">>,
       <<"s","t","r","u","c","t","u","r","e">>,
       <<"f","i","e","l","d","s">>,
       <<"k","e","y","s">>,
       <<"d","a","t","a"," ","t","y","p","e","s">>,
       <<"f","o","r","m","a","t">> >>

\* str(value), as an f-string formats it
py_str(value) ==
    CASE value.t = "str"      -> value.s
      [] value.t = "NoneType" -> <<"N","o","n","e">>
      [] value.t = "bool"     -> IF value.b THEN s_True ELSE s_False
      [] value.t = "int"      -> IF value.n < 0 THEN <<"-">> \o IntText(0 - value.n)
                                 ELSE IntText(value.n)
      [] OTHER                -> <<"{","}">>

\* value in collection_list
InCatalog(value, collection_list) == value.t = "str" /\ InList(value.s, collection_list)

NoStructure == [count |-> 0, analysis_type |-> ""]

NoDbData ==
    [keys |-> {}, error |-> <<>>, collection |-> VNone, data |-> <<>>,
     collections |-> <<>>, available_collections |-> <<>>, message |-> <<>>,
     note |-> <<>>, structure |-> NoStructure, schema |-> NoSchema]

\* a collaborator call: the operation and its arguments (filter: "none" is
\* the query argument None)
GetCollectionsCall ==
    [op |-> "get_collections", name |-> <<>>, filter |-> "none", limit |-> 0, skip |-> 0]
QueryCollectionCall(name, limit, skip) ==
    [op |-> "query_collection", name |-> name, filter |-> "none", limit |-> limit,
     skip |-> skip]

\* the collaborator call of a request that raised, "none" when the call
\* that was to raise has not been made
failed_call(fault, db_calls) ==
    IF fault = "get_collections" THEN fault
    ELSE IF fault = "query_collection" /\ db_calls[Len(db_calls)].op = "query_collection"
    THEN fault
    ELSE "none"

Routed(db_data, db_calls, checked) ==
    [db_data |-> db_data, db_calls |-> db_calls, checked |-> checked]

\* the fields of a stored document: a number, and in every second
\* document a tag
DocumentContent(doc) ==
    PyDict(<<Entry(<<"n">>, PyInt(doc))>>
           \o (IF doc % 2 = 0 THEN <<Entry(<<"t","a","g">>, PyStr(<<"e">>))>> ELSE <<>>))

\* DatabaseAgent.query_database(user_message, collection_info), with the
\* catalog the database holds and the collaborator call that raises
query_database(user_message, collection_info, collection_list, fault) ==
    LET collection_name == DictGet(collection_info, k_collection)
        query_type == DictGetDefault(collection_info, k_query_type, VStr(w_query_documents))
        is_schema_query == AnyIn(schema_terms, lower(user_message))
        unavailable == [NoDbData EXCEPT !.keys = {"error"}, !.error = e_could_not_access]
    IN  IF fault = "get_collections"
        THEN Routed(unavailable, <<GetCollectionsCall>>, VNone)
        ELSE IF query_type = VStr(w_list_collections) \/ ~Truthy(collection_name)
        THEN Routed([NoDbData EXCEPT !.keys = {"collections"}, !.collections = collection_list],
                    <<GetCollectionsCall>>, VNone)
        ELSE IF InCatalog(collection_name, collection_list)
        THEN IF fault = "query_collection"
             THEN Routed(unavailable,
                         <<GetCollectionsCall, QueryCollectionCall(collection_name.s, QUERY_LIMIT, QUERY_SKIP)>>,
                         collection_name)
             ELSE LET data == query_collection(collection_name.s, QUERY_LIMIT, QUERY_SKIP) IN
                  Routed([NoDbData EXCEPT
                             !.keys = {"collection", "data"}
                                      \cup (IF data # <<>> THEN {"schema"} ELSE {})
                                      \cup (IF data # <<>> /\ is_schema_query
                                            THEN {"is_schema_query"} ELSE {}),
                             !.collection = collection_name,
                             !.data = data,
                             !.schema = IF data # <<>>
                                        THEN extract_schema_from_documents(
                                                 [i \in 1..Len(data) |->
                                                     DocumentContent(data[i])])
                                        ELSE NoSchema],
                         <<GetCollectionsCall, QueryCollectionCall(collection_name.s, QUERY_LIMIT, QUERY_SKIP)>>,
                         collection_name)
        ELSE Routed([NoDbData EXCEPT
                        !.keys = {"error", "available_collections"},
                        !.error = e_collection \o py_str(collection_name) \o e_not_found,
                        !.available_collections = collection_list],
                    <<GetCollectionsCall>>, collection_name)

\* chat: "If collection name is not identified, try to extract it from the
\* query": the word after the first "collection" or "collections"
chat_collection_name(message, collection_name) ==
    IF ~Truthy(collection_name) \/ collection_name = VStr(s_null)
    THEN LET words == split(lower(message))
             hits == {i \in 1..Len(words) :
                         words[i] \in {k_collection, w_collections} /\ i + 1 <= Len(words)}
         IN  IF hits = {} THEN collection_name ELSE VStr(words[Least(hits) + 1])
    ELSE collection_name

\* what agent.run does: it answers with text that holds a JSON object, with
\* text that holds none, or it raises
AgentOutcomes == {"json", "text", "raise"}

\* chat, "Step 1: Get data from the database": the try block
chat_route(message, normalized_json, collection_list, fault, agent, outcome) ==
    LET query_type == DictGetDefault(normalized_json, k_query_type, VStr(w_query_documents))
        collection_name == chat_collection_name(message, DictGet(normalized_json, k_collection))
        is_candidate == Truthy(collection_name) /\ collection_name # VStr(s_null)
        listing == \/ query_type = VStr(w_list_collections)
                   \/ /\ Contains(w_list, lower(message))
                      /\ Contains(k_collection, lower(message))
    IN  IF fault = "get_collections"
        THEN Routed([NoDbData EXCEPT !.keys = {"error"}, !.error = e_could_not_access],
                    <<GetCollectionsCall>>, VNone)
        ELSE IF listing
        THEN Routed([NoDbData EXCEPT !.keys = {"collections"}, !.collections = collection_list],
                    <<GetCollectionsCall>>, VNone)
        ELSE IF is_candidate /\ InCatalog(collection_name, collection_list)
        THEN Routed(IF fault = "query_collection"
                    THEN [NoDbData EXCEPT
                             !.keys = {"error", "collections"},
                             !.error = e_could_not_query \o collection_name.s \o <<"'">>,
                             !.collections = collection_list]
                    ELSE [NoDbData EXCEPT
                             !.keys = {"collection", "data"},
                             !.collection = collection_name,
                             !.data = query_collection(collection_name.s, QUERY_LIMIT, QUERY_SKIP)],
                    <<GetCollectionsCall, QueryCollectionCall(collection_name.s, QUERY_LIMIT, QUERY_SKIP)>>,
                    collection_name)
        ELSE Routed(IF agent = "ready"
                    THEN IF outcome = "raise"
                         THEN [NoDbData EXCEPT
                                  !.keys = {"error", "collections"},
                                  !.error = e_agent,
                                  !.collections = collection_list]
                         ELSE [NoDbData EXCEPT
                                  !.keys = IF outcome = "json"
                                           THEN {"agent_data", "agent_response"}
                                           ELSE {"agent_response"}]
                    ELSE [NoDbData EXCEPT
                             !.keys = {"collections", "message"},
                             !.collections = collection_list,
                             !.message = m_no_data],
                    <<GetCollectionsCall>>,
                    IF is_candidate THEN collection_name ELSE VNone)

----------------------------------------------------------------------------
(* The data adapter: AnalysisAgent._prepare_data_for_analysis and          *)
(* AnalysisAgent._detect_analysis_type.  A document is modelled by its     *)
(* position in the batch that was handed in; db_data["structure"] is       *)
(* modelled by its count and analysis_type (its "fields" are the keys of   *)
(* the first document).                                                    *)

\* ["all", "every", "each", "complete", "entire", "total"]
full_data_keywords ==
    << <<"a","l","l">>, <<"e","v","e","r","y">>, <<"e","a","c","h">>,
       <<"c","o","m","p","l","e","t","e">>, <<"e","n","t","i","r","e">>,
       <<"t","o","t","a","l">> >>

\* ["average", "mean", "trend", "pattern", "outlier"]
full_analysis_terms ==
    << <<"a","v","e","r","a","g","e">>, <<"m","e","a","n">>,
       <<"t","r","e","n","d">>, <<"p","a","t","t","e","r","n">>,
       <<"o","u","t","l","i","e","r">> >>

\* ["highest", "maximum", "max", "top", "largest"]
maximum_terms ==
    << <<"h","i","g","h","e","s","t">>, <<"m","a","x","i","m","u","m">>,
       <<"m","a","x">>, <<"t","o","p">>, <<"l","a","r","g","e","s","t">> >>

\* ["lowest", "minimum", "min", "bottom", "smallest"]
minimum_terms ==
    << <<"l","o","w","e","s","t">>, <<"m","i","n","i","m","u","m">>,
       <<"m","i","n">>, <<"b","o","t","t","o","m">>,
       <<"s","m","a","l","l","e","s","t">> >>

\* ["first", "earliest", "initial", "beginning"]
first_terms ==
    << <<"f","i","r","s","t">>, <<"e","a","r","l","i","e","s","t">>,
       <<"i","n","i","t","i","a","l">>, <<"b","e","g","i","n","n","i","n","g">> >>

\* ["last", "latest", "most recent", "newest"]
last_terms ==
    << <<"l","a","s","t">>, <<"l","a","t","e","s","t">>,
       <<"m","o","s","t"," ","r","e","c","e","n","t">>,
       <<"n","e","w","e","s","t">> >>

\* ["average", "mean", "typical"]
average_terms ==
    << <<"a","v","e","r","a","g","e">>, <<"m","e","a","n">>,
       <<"t","y","p","i","c","a","l">> >>

\* ["trend", "pattern", "over time", "change"]
trend_terms ==
    << <<"t","r","e","n","d">>, <<"p","a","t","t","e","r","n">>,
       <<"o","v","e","r"," ","t","i","m","e">>, <<"c","h","a","n","g","e">> >>

\* ["compare", "difference", "versus", "vs"]
comparison_terms ==
    << <<"c","o","m","p","a","r","e">>,
       <<"d","i","f","f","e","r","e","n","c","e">>, <<"v","e","r","s","u","s">>,
       <<"v","s">> >>

\* ["count", "total", "sum", "how many"]
count_terms ==
    << <<"c","o","u","n","t">>, <<"t","o","t","a","l">>, <<"s","u","m">>,
       <<"h","o","w"," ","m","a","n","y">> >>

\* ["outlier", "anomaly", "unusual", "abnormal"]
outlier_terms ==
    << <<"o","u","t","l","i","e","r">>, <<"a","n","o","m","a","l","y">>,
       <<"u","n","u","s","u","a","l">>, <<"a","b","n","o","r","m","a","l">> >>

\* a detector that tests the average terms before the maximum terms
detect_analysis_type_average_first(message) ==
    LET user_message == lower(message) IN
    IF AnyIn(average_terms, user_message) THEN "average"
    ELSE IF AnyIn(maximum_terms, user_message) THEN "maximum"
    ELSE IF AnyIn(minimum_terms, user_message) THEN "minimum"
    ELSE IF AnyIn(first_terms, user_message) THEN "first"
    ELSE IF AnyIn(last_terms, user_message) THEN "last"
    ELSE IF AnyIn(trend_terms, user_message) THEN "trend"
    ELSE IF AnyIn(comparison_terms, user_message) THEN "comparison"
    ELSE IF AnyIn(count_terms, user_message) THEN "count"
    ELSE IF AnyIn(outlier_terms, user_message) THEN "outlier"
    ELSE IF AnyIn(schema_terms, user_message) THEN "schema"
    ELSE "general"

\* AnalysisAgent._detect_analysis_type(user_message)
detect_analysis_type(message) ==
    LET user_message == lower(message) IN
    IF AnyIn(maximum_terms, user_message) THEN "maximum"
    ELSE IF AnyIn(minimum_terms, user_message) THEN "minimum"
    ELSE IF AnyIn(first_terms, user_message) THEN "first"
    ELSE IF AnyIn(last_terms, user_message) THEN "last"
    ELSE IF AnyIn(average_terms, user_message) THEN "average"
    ELSE IF AnyIn(trend_terms, user_message) THEN "trend"
    ELSE IF AnyIn(comparison_terms, user_message) THEN "comparison"
    ELSE IF AnyIn(count_terms, user_message) THEN "count"
    ELSE IF AnyIn(outlier_terms, user_message) THEN "outlier"
    ELSE IF AnyIn(schema_terms, user_message) THEN "schema"
    ELSE "general"

\* len(db_data["data"]) > 50: below it the batch is not looked at
LARGE_BATCH == 50
\* len(db_data["data"]) > 100: the batch is sampled
SAMPLING_THRESHOLD == 100
\* db_data["data"][:25] and db_data["data"][-25:]
SAMPLE_HEAD == 25
SAMPLE_TAIL == 25

\* needs_full_data, as _prepare_data_for_analysis computes it
needs_full_data(user_message) ==
    \/ AnyIn(full_data_keywords, lower(user_message))
    \/ AnyIn(full_analysis_terms, lower(user_message))

\* data[:k]
py_head(data, k) == SubSeq(data, 1, IF k < Len(data) THEN k ELSE Len(data))

\* data[-k:], for k > 0
py_tail(data, k) == SubSeq(data, IF Len(data) - k + 1 > 1 THEN Len(data) - k + 1 ELSE 1, Len(data))

\* a sample that puts the last documents first
sampled_data_tail_first(data) == py_tail(data, SAMPLE_TAIL) \o py_head(data, SAMPLE_HEAD)

\* sampled_data = db_data["data"][:25] + db_data["data"][-25:]
sampled_data(data) == py_head(data, SAMPLE_HEAD) \o py_tail(data, SAMPLE_TAIL)

note_prefix == <<"D","a","t","a"," ","s","a","m","p","l","e","d"," ","f","r","o","m"," ">>
note_suffix == <<" ","r","e","c","o","r","d","s"," ","f","o","r"," ","e","f","f","i","c","i","e","n","c","y",".">>

\* f"Data sampled from {count} records for efficiency."
sampling_note(count) == note_prefix \o IntText(count) \o note_suffix

\* the branch of _prepare_data_for_analysis that samples is taken
is_sampled(db_data, user_message) ==
    /\ "data" \in db_data.keys
    /\ Len(db_data.data) > LARGE_BATCH
    /\ ~needs_full_data(user_message)
    /\ Len(db_data.data) > SAMPLING_THRESHOLD

\* _prepare_data_for_analysis(db_data, user_message): db_data as the call
\* leaves it.  The note is formatted from db_data["data"] after the sample
\* has been assigned to it.
prepare_data_for_analysis(db_data, user_message) ==
    LET with_sample == IF is_sampled(db_data, user_message)
                       THEN [db_data EXCEPT !.data = sampled_data(db_data.data)]
                       ELSE db_data
        with_note == IF is_sampled(db_data, user_message)
                     THEN [with_sample EXCEPT
                              !.keys = @ \cup {"note"},
                              !.note = sampling_note(Len(with_sample.data))]
                     ELSE with_sample
        analysis_type == detect_analysis_type(user_message)
    IN  IF "data" \in with_note.keys /\ Len(with_note.data) > 0
        THEN [with_note EXCEPT
                 !.keys = @ \cup {"structure"},
                 !.structure = [count |-> Len(with_note.data),
                                analysis_type |-> analysis_type]]
        ELSE with_note

\* the messages handed to the data adapter
amsg_average_price == <<"g","i","v","e"," ","m","e"," ","t","h","e"," ","a","v","e","r","a","g","e"," ","p","r","i","c","e">>
amsg_some_orders == <<"s","h","o","w"," ","m","e"," ","s","o","m","e"," ","o","r","d","e","r","s">>
amsg_all_orders == <<"s","h","o","w"," ","a","l","l"," ","o","r","d","e","r","s">>
amsg_highest_average == <<"h","i","g","h","e","s","t"," ","a","v","e","r","a","g","e"," ","p","r","i","c","e">>
amsg_typical == <<"a"," ","t","y","p","i","c","a","l"," ","o","r","d","e","r">>
amsg_anomaly == <<"a","n","y"," ","a","n","o","m","a","l","y">>
amsg_outliers == <<"f","i","n","d"," ","o","u","t","l","i","e","r","s">>
amsg_over_time == <<"o","r","d","e","r","s"," ","o","v","e","r"," ","t","i","m","e">>
amsg_smallest == <<"s","m","a","l","l","e","s","t"," ","o","r","d","e","r">>
amsg_count == <<"c","o","u","n","t"," ","o","r","d","e","r","s">>
amsg_trends == <<"C","o","m","p","a","r","e"," ","T","r","e","n","d","s">>
amsg_first == <<"t","h","e"," ","f","i","r","s","t"," ","o","r","d","e","r">>
amsg_latest == <<"t","h","e"," ","l","a","t","e","s","t"," ","o","r","d","e","r">>
amsg_versus == <<"u","s","e","r","s"," ","v","e","r","s","u","s"," ","o","r","d","e","r","s">>
amsg_fields == <<"w","h","i","c","h"," ","f","i","e","l","d","s"," ","e","x","i","s","t">>
amsg_summary == <<"s","h","o","w"," ","a"," ","s","u","m","m","a","r","y">>

AdapterMessages ==
    { amsg_average_price, amsg_some_orders, amsg_all_orders, amsg_highest_average,
      amsg_typical, amsg_anomaly, amsg_outliers, amsg_over_time, amsg_smallest,
      amsg_count, amsg_trends, amsg_first, amsg_latest, amsg_versus,
      amsg_fields, amsg_summary }

\* the largest batch handed to the data adapter
MaxBatch == 150

\* a batch of n documents
Batch(n) == [i \in 1..n |-> i]

----------------------------------------------------------------------------
(* Answering a request: "Step 2" and the conversation chain of chat, and   *)
(* AnalysisAgent.analyze_data.  An answer is modelled by its kind: the     *)
(* return statement that built it.                                         *)

\* what a call of the language model does: it returns text, or it raises
EngineOutcomes == {"ok", "raise"}

\* chat: if normalized_json.get("is_database_question", False)
is_database_branch_always(normalized_json) == TRUE

is_database_branch(normalized_json) ==
    Truthy(DictGetDefault(normalized_json, k_is_database_question, VBool(FALSE)))

\* chat, the fallback of "Step 2" when the analysis raised: the kind of the
\* ChatResponse returned for db_data
chat_fallback(db_data) ==
    IF db_data.keys = {} THEN "no_data"
    ELSE IF "error" \in db_data.keys THEN "issue"
    ELSE IF "collections" \in db_data.keys THEN "collections"
    ELSE IF "collection" \in db_data.keys /\ "data" \in db_data.keys THEN "data"
    ELSE IF "agent_response" \in db_data.keys THEN "agent_response"
    ELSE "raw"

\* chat, "Step 2: Analyze the data using the LLM"
chat_analyze(db_data, outcome) ==
    IF outcome = "ok" THEN "analysis" ELSE chat_fallback(db_data)

\* an outer handler that hands the exception on
chat_outer_except_reraise(exception) == [reply |-> "none", escaped |-> exception]

\* chat, the outer  except Exception as e: the apology is returned
chat_outer_except(exception) == [reply |-> "apology", escaped |-> "none"]

\* "I encountered an error while analyzing the data. ..."
e_analysis_error ==
    <<"I"," ","e","n","c","o","u","n","t","e","r","e","d"," ","a","n"," ","e","r","r","o","r"," ","w","h","i","l","e"," ","a","n","a","l","y","z","i","n","g"," ","t","h","e"," ","d","a","t","a","."," ","T","h","e"," ","a","n","a","l","y","s","i","s"," ","s","h","o","w","s"," ","t","h","e"," ","d","a","t","a"," ","i","s"," ","i","n","c","o","m","p","l","e","t","e"," ","o","r"," ","u","n","a","v","a","i","l","a","b","l","e",".">>

\* AnalysisAgent.analyze_data(user_message, db_data): db_data as
\* _prepare_data_for_analysis leaves it, and the kind of the text returned
analyze_data(user_message, db_data, outcome) ==
    LET prepared == prepare_data_for_analysis(db_data, user_message) IN
    [db_data |-> prepared,
     reply |->
        IF "error" \in prepared.keys THEN "error_report"
        ELSE IF "collections" \in prepared.keys
        THEN IF prepared.collections = <<>> THEN "no_collections" ELSE "collections"
        ELSE IF "collection" \in prepared.keys /\ "data" \in prepared.keys
                /\ prepared.data = <<>>
        THEN "empty_collection"
        ELSE IF outcome = "ok" THEN "analysis" ELSE "analysis_error"]

----------------------------------------------------------------------------
(* The response sanitizer: AnalysisAgent.remove_questions_and_suggestions. *)
(* The regular expressions are computed on the text: one step of a         *)
(* recursion per match.                                                    *)

\* re.split(r'(?<=[.!])\s+', text): the text is cut at every run of
\* whitespace that starts right after a "." or a "!"; the run is dropped
RECURSIVE SplitSentencesFrom(_, _)
SplitSentencesFrom(text, i) ==
    LET cuts == {p \in (IF i > 2 THEN i ELSE 2)..Len(text) :
                    IsSpace(text[p]) /\ text[p - 1] \in {".", "!"}}
    IN  IF cuts = {} THEN <<SubSeq(text, i, Len(text))>>
        ELSE LET b == Least(cuts)
                 after == {j \in b..Len(text) : ~IsSpace(text[j])}
                 e == IF after = {} THEN Len(text) + 1 ELSE Least(after)
             IN  <<SubSeq(text, i, b - 1)>> \o SplitSentencesFrom(text, e)

split_sentences(text) == SplitSentencesFrom(text, 1)

\* a filter that keeps every sentence
filter_sentences_keep_all(sentences) == sentences

\* [s for s in sentences if "?" not in s]
RECURSIVE filter_sentences(_)
filter_sentences(sentences) ==
    IF sentences = <<>> THEN <<>>
    ELSE (IF Contains(<<"?">>, sentences[1]) THEN <<>> ELSE <<sentences[1]>>)
         \o filter_sentences(Tail(sentences))

\* Remove sentences with question marks (lines 237-240)
remove_questions(text) ==
    IF Contains(<<"?">>, text)
    THEN join(<<" ">>, filter_sentences(split_sentences(text)))
    ELSE text

\* suggestion_patterns: each pattern is its opening words followed by
\* .*?[.!]
suggestion_openers ==
    <<
       <<"W","o","u","l","d"," ","y","o","u"," ","l","i","k","e"," ">>,
       <<"D","o"," ","y","o","u"," ","w","a","n","t"," ">>,
       <<"I","f"," ","y","o","u","'","d"," ","l","i","k","e"," ">>,
       <<"I","f"," ","y","o","u"," ","n","e","e","d"," ">>,
       <<"L","e","t"," ","m","e"," ","k","n","o","w"," ","i","f"," ">>,
       <<"P","l","e","a","s","e"," ","l","e","t"," ","m","e"," ","k","n","o","w"," ">>,
       <<"I"," ","c","a","n"," ","h","e","l","p"," ","y","o","u"," ">>,
       <<"I"," ","c","a","n"," ","p","r","o","v","i","d","e"," ">>,
       <<"I"," ","c","a","n"," ","a","n","a","l","y","z","e"," ">>,
       <<"I"," ","c","a","n"," ","f","u","r","t","h","e","r"," ">>,
       <<"F","o","r"," ","m","o","r","e"," ","i","n","f","o","r","m","a","t","i","o","n"," ">>,
       <<"T","o"," ","l","e","a","r","n"," ","m","o","r","e"," ">>
    >>

\* the index of the last character of the match of  opener .*?[.!]  that
\* starts at p, 0 when there is none: the first "." or "!" after the
\* opener, unless a line break comes before it ("." matches no "\n")
MatchEnd(opener, text, p) ==
    IF ~StartsAt(opener, text, p) THEN 0
    ELSE LET stops == {j \in (p + Len(opener))..Len(text) :
                          text[j] \in {".", "!", "\n"}}
         IN  IF stops = {} \/ text[Least(stops)] = "\n" THEN 0
             ELSE Least(stops)

\* re.sub(opener + ".*?[.!]", "", text): the leftmost matches, none
\* overlapping, are removed
RECURSIVE SubPatternFrom(_, _, _)
SubPatternFrom(opener, text, i) ==
    LET found == {p \in i..Len(text) : MatchEnd(opener, text, p) > 0} IN
    IF found = {} THEN SubSeq(text, i, Len(text))
    ELSE SubSeq(text, i, Least(found) - 1)
         \o SubPatternFrom(opener, text, MatchEnd(opener, text, Least(found)) + 1)

sub_pattern(opener, text) == SubPatternFrom(opener, text, 1)

\* for pattern in suggestion_patterns: text = re.sub(pattern, "", text)
RECURSIVE RemoveSuggestionsFrom(_, _)
RemoveSuggestionsFrom(text, k) ==
    IF k > Len(suggestion_openers) THEN text
    ELSE RemoveSuggestionsFrom(sub_pattern(suggestion_openers[k], text), k + 1)

remove_suggestions(text) == RemoveSuggestionsFrom(text, 1)

\* re.sub(r'\s+', ' ', text)
RECURSIVE CollapseFrom(_, _)
CollapseFrom(text, i) ==
    LET spaces == {p \in i..Len(text) : IsSpace(text[p])} IN
    IF spaces = {} THEN SubSeq(text, i, Len(text))
    ELSE LET b == Least(spaces)
             after == {j \in b..Len(text) : ~IsSpace(text[j])}
             e == IF after = {} THEN Len(text) + 1 ELSE Least(after)
         IN  SubSeq(text, i, b - 1) \o <<" ">> \o CollapseFrom(text, e)

collapse_whitespace(text) == CollapseFrom(text, 1)

\* str.strip()
strip(text) ==
    LET solid == {j \in 1..Len(text) : ~IsSpace(text[j])} IN
    IF solid = {} THEN <<>>
    ELSE SubSeq(text, Least(solid),
                CHOOSE j \in solid : \A k \in solid : k <= j)

\* if text and not text.endswith(('.', '!', '?')): text += '.'
ensure_ending(text) ==
    IF text # <<>> /\ text[Len(text)] \notin {".", "!", "?"}
    THEN Append(text, ".")
    ELSE text

\* AnalysisAgent.remove_questions_and_suggestions(text)
remove_questions_and_suggestions(text) ==
    ensure_ending(strip(collapse_whitespace(remove_suggestions(remove_questions(text)))))

----------------------------------------------------------------------------
(* The state machine.  A behaviour handles one request, through one of the *)
(* two entry points: ClassifierAgent.classify_query followed by            *)
(* DatabaseAgent.query_database on the classification it returned, or the  *)
(* /chat handler of main.py.  A third entry point hands a batch of         *)
(* documents to the data adapter (SpecAdapter).                            *)

VARIABLES
    entry,              \* "agents" or "chat": the entry point of the request
    pc,                 \* where the request stands
    user_message,       \* the user's message
    catalog,            \* the collection names the database holds
    agent,              \* main.py's agent: "ready", or "none" when
                        \* initialize_agent failed at import
    analysis_response,  \* the text the engine answered with
    parse_path,         \* the branch that built analysis_json
    analysis_json,      \* the dict the try block leaves
    normalized_json,    \* chat: the normalized dict
    returned,           \* classify_query: the dict it returns
    db_data,            \* the router's result
    db_calls,           \* the database collaborator calls made, in order
    checked,            \* the value tested with  in collection_list
    escaped,            \* the exception that left the entry point, or "none"
    batch,              \* the data adapter: db_data["data"] as handed in
    documents,          \* schema inference: the documents handed in
    schema,             \* schema inference: the schema returned
    response_text,      \* the sanitizer: the text handed in
    sanitized,          \* the sanitizer: the text returned
    db_fault,           \* the database collaborator call that raised, or "none"
    reply,              \* what the request is answered with, "none" before
    memory,             \* main.py's memory: the messages of the conversation
    running,            \* the request whose handler the event loop runs, 0 if none
    handlers,           \* concurrent requests: the endpoint and the step of each
    observed,           \* the history each GET /history request has returned
    completed           \* the chat requests that saved an exchange, in order

vars == <<entry, pc, user_message, catalog, agent, analysis_response, parse_path,
          analysis_json, normalized_json, returned, db_data, db_calls, checked,
          escaped, batch, documents, schema, response_text, sanitized,
          db_fault, reply, memory, running, handlers, observed, completed>>

\* what the entry points of the other components leave alone
schemaVars == <<documents, schema>>
sanitizerVars == <<response_text, sanitized>>
replyVars == <<db_fault, reply>>
memoryVars == <<memory, running, handlers, observed, completed>>

\* the conversation memory when no concurrent requests are modelled
NoMemory ==
    /\ memory = <<>>
    /\ running = 0
    /\ handlers = <<>>
    /\ observed = <<>>
    /\ completed = <<>>

Init ==
    /\ entry \in {"agents", "chat"}
    /\ pc = "start"
    /\ user_message \in Messages
    /\ catalog \in Catalogs
    /\ agent \in {"ready", "none"}
    /\ analysis_response = <<>>
    /\ parse_path = "none"
    /\ analysis_json = <<>>
    /\ normalized_json = <<>>
    /\ returned = <<>>
    /\ db_data = NoDbData
    /\ db_calls = <<>>
    /\ checked = VNone
    /\ escaped = "none"
    /\ batch = <<>>
    /\ documents = <<>>
    /\ schema = NoSchema
    /\ response_text = <<>>
    /\ sanitized = <<>>
    /\ db_fault = "none"
    /\ reply = "none"
    /\ NoMemory

\* ClassifierAgent.classify_query.  self.llm.invoke is called before the
\* try block is entered, so what it raises leaves the function.
ClassifyQuery ==
    /\ entry = "agents"
    /\ pc = "start"
    /\ \/ /\ escaped' = "invoke"
          /\ pc' = "raised"
          /\ UNCHANGED <<analysis_response, parse_path, analysis_json, returned>>
       \/ \E response \in Responses :
              LET parsed == classifier_parse(user_message, response) IN
              /\ analysis_response' = response
              /\ parse_path' = parsed.path
              /\ analysis_json' = parsed.json
              /\ returned' = ensure_plural(parsed.json)
              /\ pc' = "classified"
              /\ UNCHANGED escaped
    /\ UNCHANGED <<entry, user_message, catalog, agent, normalized_json, db_data,
                   db_calls, checked, batch,
                   schemaVars, sanitizerVars,
                   replyVars, memoryVars>>

\* DatabaseAgent.query_database(user_message, collection_info) on the
\* classification that classify_query returned
QueryDatabase ==
    /\ entry = "agents"
    /\ pc = "classified"
    /\ \E fault \in DatabaseFaults :
           LET r == query_database(user_message, returned, catalog, fault) IN
           /\ db_data' = r.db_data
           /\ db_calls' = r.db_calls
           /\ checked' = r.checked
           /\ db_fault' = failed_call(fault, r.db_calls)
    /\ pc' = "routed"
    /\ UNCHANGED <<entry, user_message, catalog, agent, analysis_response, parse_path,
                   analysis_json, normalized_json, returned, escaped, batch,
                   schemaVars, sanitizerVars, reply, memoryVars>>

\* AnalysisAgent.analyze_data(user_message, db_data) on the result of
\* query_database
AnalyzeData ==
    /\ entry = "agents"
    /\ pc = "routed"
    /\ \E outcome \in EngineOutcomes :
           LET r == analyze_data(user_message, db_data, outcome) IN
           /\ db_data' = r.db_data
           /\ reply' = r.reply
    /\ batch' = db_data.data
    /\ pc' = "analyzed"
    /\ UNCHANGED <<entry, user_message, catalog, agent, analysis_response, parse_path,
                   analysis_json, normalized_json, returned, db_calls, checked, escaped,
                   schemaVars, sanitizerVars, db_fault, memoryVars>>

\* chat, the engine call and the try block that follows it.  The call is
\* inside chat's outer try: what it raises ends the request with the
\* apology of the outer except.
ChatClassify ==
    /\ entry = "chat"
    /\ pc = "start"
    /\ \/ /\ pc' = "chat_apology"
          /\ reply' = chat_outer_except("invoke").reply
          /\ escaped' = chat_outer_except("invoke").escaped
          /\ UNCHANGED <<analysis_response, parse_path, analysis_json>>
       \/ \E response \in Responses :
              LET parsed == chat_parse(user_message, response) IN
              /\ analysis_response' = response
              /\ parse_path' = parsed.path
              /\ analysis_json' = parsed.json
              /\ pc' = "chat_parsed"
              /\ UNCHANGED <<reply, escaped>>
    /\ UNCHANGED <<entry, user_message, catalog, agent, normalized_json, returned,
                   db_data, db_calls, checked, batch,
                   schemaVars, sanitizerVars, db_fault, memoryVars>>

\* chat, "Normalize the JSON keys to handle variations in key names"
ChatNormalize ==
    /\ entry = "chat"
    /\ pc = "chat_parsed"
    /\ normalized_json' = normalize_keys(analysis_json)
    /\ pc' = "chat_normalized"
    /\ UNCHANGED <<entry, user_message, catalog, agent, analysis_response, parse_path,
                   analysis_json, returned, db_data, db_calls, checked, escaped, batch,
                   schemaVars, sanitizerVars,
                   replyVars, memoryVars>>

\* chat, "Ensure all required keys exist"
ChatDefaults ==
    /\ entry = "chat"
    /\ pc = "chat_normalized"
    /\ normalized_json' = ensure_required_keys(normalized_json)
    /\ pc' = "chat_classified"
    /\ UNCHANGED <<entry, user_message, catalog, agent, analysis_response, parse_path,
                   analysis_json, returned, db_data, db_calls, checked, escaped, batch,
                   schemaVars, sanitizerVars,
                   replyVars, memoryVars>>

\* chat, "Handle database-related questions", step 1; a question that is
\* not database-related goes on to the conversation chain
ChatRoute ==
    /\ entry = "chat"
    /\ pc = "chat_classified"
    /\ IF is_database_branch(normalized_json)
       THEN /\ \E fault \in DatabaseFaults, outcome \in AgentOutcomes :
                   LET r == chat_route(user_message, normalized_json, catalog, fault,
                                       agent, outcome) IN
                   /\ db_data' = r.db_data
                   /\ db_calls' = r.db_calls
                   /\ checked' = r.checked
                   /\ db_fault' = failed_call(fault, r.db_calls)
            /\ pc' = "chat_routed"
       ELSE /\ pc' = "chat_general"
            /\ UNCHANGED <<db_data, db_calls, checked, db_fault>>
    /\ UNCHANGED <<entry, user_message, catalog, agent, analysis_response, parse_path,
                   analysis_json, normalized_json, returned, escaped, batch,
                   schemaVars, sanitizerVars, reply, memoryVars>>

\* chat, "Step 2: Analyze the data using the LLM": the analysis is
\* returned, or the fallback built from db_data when the analysis raised
ChatAnalyze ==
    /\ entry = "chat"
    /\ pc = "chat_routed"
    /\ \E outcome \in EngineOutcomes : reply' = chat_analyze(db_data, outcome)
    /\ pc' = "chat_responded"
    /\ UNCHANGED <<entry, user_message, catalog, agent, analysis_response, parse_path,
                   analysis_json, normalized_json, returned, db_data, db_calls, checked,
                   escaped, batch, schemaVars, sanitizerVars, db_fault, memoryVars>>

\* chat, "For non-database questions, use the regular conversation chain":
\* what conversation.predict raises is caught by the outer except
ChatConverse ==
    /\ entry = "chat"
    /\ pc = "chat_general"
    /\ \/ /\ reply' = "conversation"
          /\ pc' = "chat_responded"
          /\ UNCHANGED escaped
       \/ /\ reply' = chat_outer_except("predict").reply
          /\ escaped' = chat_outer_except("predict").escaped
          /\ pc' = "chat_apology"
    /\ UNCHANGED <<entry, user_message, catalog, agent, analysis_response, parse_path,
                   analysis_json, normalized_json, returned, db_data, db_calls, checked,
                   batch, schemaVars, sanitizerVars, db_fault, memoryVars>>

Next ==
    \/ ClassifyQuery
    \/ QueryDatabase
    \/ ChatClassify
    \/ ChatNormalize
    \/ ChatDefaults
    \/ ChatRoute
    \/ ChatAnalyze
    \/ ChatConverse
    \/ AnalyzeData

Spec == Init /\ [][Next]_vars

\* The data adapter is handed a message and the result of a query: a batch
\* of 0..MaxBatch documents of a collection, or a listing that has no data.
InitAdapter ==
    /\ entry = "adapter"
    /\ pc = "start"
    /\ user_message \in AdapterMessages
    /\ \/ \E n \in 0..MaxBatch :
              db_data = [NoDbData EXCEPT !.keys = {"collection", "data"},
                                         !.collection = VStr(w_orders),
                                         !.data = Batch(n)]
       \/ db_data = [NoDbData EXCEPT !.keys = {"collections"},
                                     !.collections = <<w_users, w_orders>>]
    /\ batch = db_data.data
    /\ catalog = <<w_users, w_orders>>
    /\ agent = "ready"
    /\ analysis_response = <<>>
    /\ parse_path = "none"
    /\ analysis_json = <<>>
    /\ normalized_json = <<>>
    /\ returned = <<>>
    /\ db_calls = <<>>
    /\ checked = VNone
    /\ escaped = "none"
    /\ documents = <<>>
    /\ schema = NoSchema
    /\ response_text = <<>>
    /\ sanitized = <<>>
    /\ db_fault = "none"
    /\ reply = "none"
    /\ NoMemory

\* AnalysisAgent._prepare_data_for_analysis(db_data, user_message)
PrepareData ==
    /\ entry = "adapter"
    /\ pc = "start"
    /\ db_data' = prepare_data_for_analysis(db_data, user_message)
    /\ pc' = "prepared"
    /\ UNCHANGED <<entry, user_message, catalog, agent, analysis_response, parse_path,
                   analysis_json, normalized_json, returned, db_calls, checked,
                   escaped, batch,
                   schemaVars, sanitizerVars,
                   replyVars, memoryVars>>

NextAdapter == PrepareData

SpecAdapter == InitAdapter /\ [][NextAdapter]_vars

\* the variables of a request, when no request is handled
NoRequest ==
    /\ user_message = <<>>
    /\ catalog = <<>>
    /\ agent = "ready"
    /\ analysis_response = <<>>
    /\ parse_path = "none"
    /\ analysis_json = <<>>
    /\ normalized_json = <<>>
    /\ returned = <<>>
    /\ db_data = NoDbData
    /\ db_calls = <<>>
    /\ checked = VNone
    /\ escaped = "none"
    /\ batch = <<>>

\* Schema inference is handed a batch of 0..MaxDocuments documents.
InitSchema ==
    /\ entry = "schema"
    /\ pc = "start"
    /\ documents \in UNION {[1..n -> SampleDocuments] : n \in 0..MaxDocuments}
    /\ schema = NoSchema
    /\ response_text = <<>>
    /\ sanitized = <<>>
    /\ db_fault = "none"
    /\ reply = "none"
    /\ NoMemory
    /\ NoRequest

\* DatabaseAgent._extract_schema_from_documents(documents)
ExtractSchema ==
    /\ entry = "schema"
    /\ pc = "start"
    /\ schema' = extract_schema_from_documents(documents)
    /\ pc' = "extracted"
    /\ UNCHANGED <<entry, user_message, catalog, agent, analysis_response, parse_path,
                   analysis_json, normalized_json, returned, db_data, db_calls, checked,
                   escaped, batch, documents, sanitizerVars,
                   replyVars, memoryVars>>

NextSchema == ExtractSchema

SpecSchema == InitSchema /\ [][NextSchema]_vars

\* the texts handed to the response sanitizer: up to MaxFragments of these
\* fragments, one after the other with a blank or a line break between
\* two of them
sf_result == <<"H","e","r","e"," ","i","s"," ","t","h","e"," ","r","e","s","u","l","t",".">>
sf_question == <<"W","o","u","l","d"," ","y","o","u"," ","l","i","k","e"," ","m","o","r","e"," ","d","e","t","a","i","l","s","?">>
sf_thanks == <<"T","h","a","n","k","s">>
sf_offer == <<"I"," ","c","a","n"," ","p","r","o","v","i","d","e"," ","m","o","r","e"," ","d","e","t","a","i","l","s">>
sf_know == <<"L","e","t"," ","m","e"," ","k","n","o","w"," ","i","f"," ","y","o","u"," ","n","e","e","d"," ","m","o","r","e",".">>
sf_total == <<"T","h","e"," ","t","o","t","a","l"," ","i","s"," ","5","!">>

SanitizerFragments == {sf_result, sf_question, sf_thanks, sf_offer, sf_know, sf_total}

SanitizerSeparators == {<<" ">>, <<"\n">>}

\* the largest number of fragments of a text
MaxFragments == 3

\* the texts of n fragments
RECURSIVE FragmentTexts(_)
FragmentTexts(n) ==
    IF n = 0 THEN {<<>>}
    ELSE IF n = 1 THEN SanitizerFragments
    ELSE {t \o sep \o f : t \in FragmentTexts(n - 1),
                          sep \in SanitizerSeparators,
                          f \in SanitizerFragments}

\* a suggestion that spans a line break
st_line_break == <<"L","e","t"," ","m","e"," ","k","n","o","w"," ","i","f","\n","y","o","u"," ","n","e","e","d"," ","m","o","r","e",".">>
\* a suggestion whose opener is put together by the removal of another
st_nested == <<"I"," ","c","a","n"," ","W","o","u","l","d"," ","y","o","u"," ","l","i","k","e"," ","a"," ","c","h","a","r","t","."," ","p","r","o","v","i","d","e"," ","m","o","r","e",".">>
\* runs of whitespace, at both ends too
st_spaces == <<" "," ","D","o","n","e","."," "," ","\n","\n"," ","T","o"," ","l","e","a","r","n"," ","m","o","r","e"," "," ","a","s","k","!"," ">>

SanitizerTexts ==
    UNION {FragmentTexts(n) : n \in 0..MaxFragments}
       \cup {st_line_break, st_nested, st_spaces}

\* The sanitizer is handed the text the language model generated.
InitSanitizer ==
    /\ entry = "sanitizer"
    /\ pc = "start"
    /\ response_text \in SanitizerTexts
    /\ sanitized = <<>>
    /\ db_fault = "none"
    /\ reply = "none"
    /\ NoMemory
    /\ documents = <<>>
    /\ schema = NoSchema
    /\ NoRequest

\* AnalysisAgent.remove_questions_and_suggestions(text)
Sanitize ==
    /\ entry = "sanitizer"
    /\ pc = "start"
    /\ sanitized' = remove_questions_and_suggestions(response_text)
    /\ pc' = "sanitized"
    /\ UNCHANGED <<entry, user_message, catalog, agent, analysis_response, parse_path,
                   analysis_json, normalized_json, returned, db_data, db_calls, checked,
                   escaped, batch, schemaVars, response_text,
                   replyVars, memoryVars>>

NextSanitizer == Sanitize

SpecSanitizer == InitSanitizer /\ [][NextSanitizer]_vars

\* The conversation memory of main.py is one object for all requests: the
\* conversation chain and the agent save an exchange into it, GET /history
\* reads it and DELETE /history clears it.  The handlers are coroutines
\* without an await: the event loop runs a handler it has started to its
\* end before it starts another one.

\* the number of concurrent requests
NumRequests == 3

Requests == 1..NumRequests

Endpoints == {"chat", "history", "clear"}

\* the messages save_context appends for the exchange of a request
HumanMessage(r) == [role |-> "human", request |-> r]
AIMessage(r) == [role |-> "ai", request |-> r]

\* a server that starts a handler while another one is running
may_start_anytime(loop) == TRUE

\* the event loop starts a handler when it runs no other one
may_start(loop) == loop = 0

\* what the chat handler does with the memory: it answers from the data
\* it fetched and uses no memory ("direct"), its chain or agent raises
\* before anything is saved ("raise"), or its chain or agent answers and
\* saves the exchange ("ok")
ChatPaths == {"direct", "raise", "ok"}

InitMemory ==
    /\ entry = "memory"
    /\ pc = "serving"
    /\ handlers \in [Requests -> [endpoint : Endpoints, step : {"waiting"}]]
    /\ memory = <<>>
    /\ running = 0
    /\ observed = [r \in Requests |-> <<>>]
    /\ completed = <<>>
    /\ documents = <<>>
    /\ schema = NoSchema
    /\ response_text = <<>>
    /\ sanitized = <<>>
    /\ db_fault = "none"
    /\ reply = "none"
    /\ NoRequest

\* the event loop starts the handler of a request
StartHandler(r) ==
    /\ handlers[r].step = "waiting"
    /\ may_start(running)
    /\ running' = r
    /\ handlers' = [handlers EXCEPT ![r].step = "started"]
    /\ UNCHANGED <<memory, observed, completed>>

\* chat: conversation.predict or agent.run is called and returns or
\* raises, or the request is answered without them
ChatRun(r) ==
    /\ handlers[r].endpoint = "chat"
    /\ handlers[r].step = "started"
    /\ \E path \in ChatPaths :
           IF path = "ok"
           THEN /\ handlers' = [handlers EXCEPT ![r].step = "answered"]
                /\ UNCHANGED running
           ELSE /\ handlers' = [handlers EXCEPT ![r].step = "done"]
                /\ running' = 0
    /\ UNCHANGED <<memory, observed, completed>>

\* save_context, first half: the human message is appended
SaveHuman(r) ==
    /\ handlers[r].endpoint = "chat"
    /\ handlers[r].step = "answered"
    /\ memory' = Append(memory, HumanMessage(r))
    /\ handlers' = [handlers EXCEPT ![r].step = "human_saved"]
    /\ UNCHANGED <<running, observed, completed>>

\* save_context, second half: the AI message is appended; chat returns
SaveAI(r) ==
    /\ handlers[r].endpoint = "chat"
    /\ handlers[r].step = "human_saved"
    /\ memory' = Append(memory, AIMessage(r))
    /\ handlers' = [handlers EXCEPT ![r].step = "done"]
    /\ completed' = Append(completed, r)
    /\ running' = 0
    /\ UNCHANGED observed

\* get_history: history = memory.chat_memory.messages
GetHistory(r) ==
    /\ handlers[r].endpoint = "history"
    /\ handlers[r].step = "started"
    /\ observed' = [observed EXCEPT ![r] = memory]
    /\ handlers' = [handlers EXCEPT ![r].step = "done"]
    /\ running' = 0
    /\ UNCHANGED <<memory, completed>>

\* clear_history: memory.clear()
ClearHistory(r) ==
    /\ handlers[r].endpoint = "clear"
    /\ handlers[r].step = "started"
    /\ memory' = <<>>
    /\ handlers' = [handlers EXCEPT ![r].step = "done"]
    /\ running' = 0
    /\ UNCHANGED <<observed, completed>>

NextMemory ==
    /\ entry = "memory"
    /\ \E r \in Requests :
           \/ StartHandler(r)
           \/ ChatRun(r)
           \/ SaveHuman(r)
           \/ SaveAI(r)
           \/ GetHistory(r)
           \/ ClearHistory(r)
    /\ UNCHANGED <<entry, pc, user_message, catalog, agent, analysis_response, parse_path,
                   analysis_json, normalized_json, returned, db_data, db_calls, checked,
                   escaped, batch, schemaVars, sanitizerVars, replyVars>>

SpecMemory == InitMemory /\ [][NextMemory]_vars

----------------------------------------------------------------------------
(* Properties of the classifiers and of the query routers, under Spec. *)

IntentFields == {k_is_database_question, k_collection, k_query_type}

\* the request has left ClassifierAgent.classify_query with a return value
Classified == entry = "agents" /\ pc \in {"classified", "routed"}

\* chat has passed "Ensure all required keys exist"
ChatClassified == entry = "chat" /\ pc \in {"chat_classified", "chat_general", "chat_routed"}

\* a collection value that names a collection: a non-empty text other than
\* the engine's "null"
IsCandidate(value) == value.t = "str" /\ value.s # <<>> /\ value.s # s_null

\* C1: ClassifierAgent.classify_query never fails: whatever the engine does
\* (any response text, or a failure raised by the invoke call), no
\* exception escapes classify_query.
C1_ClassifyQueryNeverFails == entry = "agents" => escaped = "none"

\* C2: for every user message and every engine response that holds no
\* parseable JSON object (no brace span, or a brace span that fails every
\* parsing attempt), the classifier returns an object with the three keys
\* is_database_question, collection and query_type, and its
\* is_database_question is a boolean.
C2_FallbackHasAllKeys ==
    /\ (Classified /\ parse_path \in {"no_match", "error"})
          => /\ IntentFields \subseteq Keys(returned)
             /\ Get(returned, k_is_database_question).t = "bool"
    /\ (ChatClassified /\ parse_path \in {"no_match", "error"})
          => /\ IntentFields \subseteq Keys(normalized_json)
             /\ Get(normalized_json, k_is_database_question).t = "bool"

\* classify_query has returned the fallback built from "show me orders"
\* when the engine answered without any brace span
C2_Witness ==
    /\ Classified
    /\ parse_path = "no_match"
    /\ user_message = msg_show_orders
    /\ analysis_response = resp_no_json
    /\ Get(returned, k_collection) = VStr(w_orders)

C3_Default(field) ==
    IF field = k_is_database_question THEN VBool(FALSE)
    ELSE IF field = k_collection THEN VNone
    ELSE VStr(w_query_documents)

\* the decision holds the field, and holds its default when the parsed
\* object, after key normalization, does not have it
C3_FieldOk(decision, field) ==
    /\ HasKey(decision, field)
    /\ ~HasKey(normalize_keys(analysis_json), field) => Get(decision, field) = C3_Default(field)

\* C3: for every engine response from which a JSON object is parsed, the
\* decision the classifier hands on has all three fields, a field absent
\* from the parsed object (after key normalization) taking its default
\* is_database_question = false, collection = null,
\* query_type = "query_documents"; both for the inline classifier of /chat
\* and for ClassifierAgent.classify_query.
C3_ParsedDecisionHasAllFields ==
    /\ (Classified /\ parse_path = "json")
          => \A field \in IntentFields : C3_FieldOk(returned, field)
    /\ (ChatClassified /\ parse_path \in {"json", "pairs"})
          => \A field \in IntentFields : C3_FieldOk(normalized_json, field)

\* the rule of the claim: the first of database marker, "collection",
\* "query" or "type" that the lowercased key contains; <<>> for none
C4_Field(key) ==
    IF \E marker \in {<<"d","a","t","a","b","a","s","e">>, <<"d","b">>,
                      <<"i","s","_","d","a","t","a","b","a","s","e">>} :
           Contains(marker, lower(key))
    THEN k_is_database_question
    ELSE IF Contains(<<"c","o","l","l","e","c","t","i","o","n">>, lower(key))
    THEN k_collection
    ELSE IF \E marker \in {<<"q","u","e","r","y">>, <<"t","y","p","e">>} :
                Contains(marker, lower(key))
    THEN k_query_type
    ELSE <<>>

\* C4: the key-normalization pass assigns each key of the parsed object to
\* at most one field, the one of the first rule that matches, in the
\* order database marker ("database", "db", "is_database"), "collection",
\* "query" or "type"; a key that matches no rule is dropped.  So the
\* normalized object has exactly the fields some key is assigned to, each
\* with the value of such a key; a key with a database marker and
\* "collection" sets is_database_question only; the canonical keys map to
\* themselves.
C4_KeyNormalization ==
    /\ (entry = "chat" /\ pc = "chat_normalized")
          => /\ \A field \in Keys(normalized_json) :
                    /\ field \in IntentFields
                    /\ \E i \in 1..Len(analysis_json) :
                           /\ C4_Field(analysis_json[i].k) = field
                           /\ field # k_is_database_question
                                 => Get(normalized_json, field) = analysis_json[i].v
             /\ \A i \in 1..Len(analysis_json) :
                    C4_Field(analysis_json[i].k) # <<>>
                       => C4_Field(analysis_json[i].k) \in Keys(normalized_json)
    /\ \A field \in IntentFields : C4_Field(field) = field

\* chat has normalized {"db_collection": "orders"}: the key holds "db" and
\* "collection", and only is_database_question is set
C4_Witness ==
    /\ entry = "chat"
    /\ pc = "chat_normalized"
    /\ analysis_response = resp_db_collection
    /\ Keys(analysis_json) = {<<"d","b","_","c","o","l","l","e","c","t","i","o","n">>}
    /\ Keys(normalized_json) = {k_is_database_question}

\* the collection of the dict the try block left, and of the dict returned
C5_Candidate == DictGet(analysis_json, k_collection)
C5_Resolved == DictGet(returned, k_collection)

\* C5, as the claim states it: the pluralization appends "s" to every
\* candidate that is non-null, non-empty and does not end in "s", leaves
\* every other candidate unchanged, and is idempotent.
C5_PluralizationAsClaimed ==
    (entry = "agents" /\ pc = "classified")
       => /\ IF /\ C5_Candidate.t = "str"
                /\ C5_Candidate.s # <<>>
                /\ ~endswith(C5_Candidate.s, <<"s">>)
             THEN C5_Resolved = VStr(C5_Candidate.s \o <<"s">>)
             ELSE C5_Resolved = C5_Candidate
          /\ resolve(resolve(C5_Candidate)) = resolve(C5_Candidate)

\* C5, amended: the pluralization appends "s" to every candidate that is a
\* non-empty text other than "null" and does not end in "s", leaves every
\* other candidate (null, the empty text, the text "null", a text ending in
\* "s", a value that is not text) unchanged, and is idempotent;
\* resolve("order") = "orders" and resolve("orders") = "orders".
C5_Pluralization ==
    /\ (entry = "agents" /\ pc = "classified")
          => /\ IF /\ C5_Candidate.t = "str"
                   /\ C5_Candidate.s # <<>>
                   /\ C5_Candidate.s # <<"n","u","l","l">>
                   /\ ~endswith(C5_Candidate.s, <<"s">>)
                THEN C5_Resolved = VStr(C5_Candidate.s \o <<"s">>)
                ELSE C5_Resolved = C5_Candidate
             /\ resolve(resolve(C5_Candidate)) = resolve(C5_Candidate)
             /\ resolve(C5_Resolved) = C5_Resolved
    /\ resolve(VStr(w_order)) = VStr(w_orders)
    /\ resolve(VStr(w_orders)) = VStr(w_orders)

\* classify_query has parsed the collection "order" and returns "orders"
C5_Witness ==
    /\ entry = "agents"
    /\ pc = "classified"
    /\ parse_path = "json"
    /\ C5_Candidate = VStr(w_order)
    /\ C5_Resolved = VStr(w_orders)

\* C6: every non-null, non-empty collection name that classification
\* passes downstream ends in "s": the collection of the decision handed
\* on, the name tested against the catalog, and the name query_collection
\* is called with.
C6_DownstreamNamesArePlural ==
    /\ (Classified /\ IsCandidate(DictGet(returned, k_collection)))
          => endswith(DictGet(returned, k_collection).s, <<"s">>)
    /\ (ChatClassified /\ IsCandidate(DictGet(normalized_json, k_collection)))
          => endswith(DictGet(normalized_json, k_collection).s, <<"s">>)
    /\ IsCandidate(checked) => endswith(checked.s, <<"s">>)
    /\ \A i \in 1..Len(db_calls) :
           (db_calls[i].op = "query_collection" /\ db_calls[i].name # <<>>)
              => endswith(db_calls[i].name, <<"s">>)

\* the candidate the router is handed
C7_Candidate ==
    IF entry = "agents" THEN DictGet(returned, k_collection)
    ELSE DictGet(normalized_json, k_collection)

\* C7: whenever the candidate collection name is non-empty and not in the
\* catalog, the router returns CollectionNotFound: an error that names
\* the candidate, with the catalog attached; never data, an empty result
\* or a plain listing, whatever the query_type.  (A result that reports
\* the database as not accessible is left aside.)
C7_NotFoundIsReported ==
    (/\ pc \in {"routed", "chat_routed"}
     /\ IsCandidate(C7_Candidate)
     /\ ~InList(C7_Candidate.s, catalog)
     /\ db_data.error # e_could_not_access)
       => /\ db_data.keys = {"error", "available_collections"}
          /\ db_data.error = <<"C","o","l","l","e","c","t","i","o","n"," ","'">>
                                \o C7_Candidate.s
                                \o <<"'"," ","n","o","t"," ","f","o","u","n","d">>
          /\ db_data.available_collections = catalog

----------------------------------------------------------------------------
(* Properties of the data adapter, under SpecAdapter. *)

\* _prepare_data_for_analysis has returned for a query result with data
Prepared == entry = "adapter" /\ pc = "prepared" /\ "data" \in db_data.keys

\* the adapter sampled: it returns other documents than it was handed, or
\* attaches a note
Sampled == db_data.data # batch \/ "note" \in db_data.keys

\* the message contains one of the full-data cues of the claim
C8_HasFullDataCue ==
    \E cue \in {<<"a","l","l">>, <<"e","v","e","r","y">>, <<"e","a","c","h">>,
                <<"c","o","m","p","l","e","t","e">>, <<"e","n","t","i","r","e">>,
                <<"t","o","t","a","l">>} :
        Contains(cue, lower(user_message))

\* C8: the data adapter samples a batch if and only if the batch has more
\* than 100 documents, the message contains no full-data cue (all, every,
\* each, complete, entire, total) and the AnalysisType detected for the
\* message is not average, trend or outlier; in every other case the whole
\* batch is returned and no note is attached.
C8_SamplesIffLargeAndNotFullData ==
    Prepared
       => (Sampled <=> /\ Len(batch) > 100
                       /\ ~C8_HasFullDataCue
                       /\ detect_analysis_type(user_message)
                             \notin {"average", "trend", "outlier"})

\* C9: when the data adapter samples a batch of n > 100 documents, it
\* returns exactly 50 documents: documents 1..25 of the input followed by
\* documents n-24..n, in their order.  For every input, sampled or not,
\* the documents returned are a subsequence of the input: each is the
\* document at its position of the input, and the positions increase.
C9_SampleIsFirstAndLast25 ==
    Prepared
       => /\ Sampled
                => /\ Len(batch) > 100
                   /\ Len(db_data.data) = 50
                   /\ \A i \in 1..25 :
                          /\ db_data.data[i] = batch[i]
                          /\ db_data.data[25 + i] = batch[Len(batch) - 25 + i]
          /\ \A i \in 1..Len(db_data.data) :
                 /\ db_data.data[i] \in 1..Len(batch)
                 /\ batch[db_data.data[i]] = db_data.data[i]
                 /\ i > 1 => db_data.data[i - 1] < db_data.data[i]

\* the adapter has sampled a batch of 150 documents for "show me some
\* orders": 50 documents are left, the 25th is document 25 and the 26th is
\* document 126
C9_Witness ==
    /\ Prepared
    /\ user_message = amsg_some_orders
    /\ Len(batch) = 150
    /\ Len(db_data.data) = 50
    /\ db_data.data[25] = 25
    /\ db_data.data[26] = 126

\* C10: when the data adapter samples a batch, the note it attaches states
\* the original number of documents of the batch: the number the batch
\* had before sampling appears in the note.
C10_NoteStatesOriginalCount ==
    (Prepared /\ Sampled)
       => /\ "note" \in db_data.keys
          /\ Contains(IntText(Len(batch)), db_data.note)

\* the categories of the Analysis-Type Detector in their fixed order, each
\* with its keyword set
C17_Categories ==
    <<
       [name |-> "maximum",
        keywords |-> {<<"h","i","g","h","e","s","t">>,
                      <<"m","a","x","i","m","u","m">>,
                      <<"m","a","x">>,
                      <<"t","o","p">>,
                      <<"l","a","r","g","e","s","t">>}],
       [name |-> "minimum",
        keywords |-> {<<"l","o","w","e","s","t">>,
                      <<"m","i","n","i","m","u","m">>,
                      <<"m","i","n">>,
                      <<"b","o","t","t","o","m">>,
                      <<"s","m","a","l","l","e","s","t">>}],
       [name |-> "first",
        keywords |-> {<<"f","i","r","s","t">>,
                      <<"e","a","r","l","i","e","s","t">>,
                      <<"i","n","i","t","i","a","l">>,
                      <<"b","e","g","i","n","n","i","n","g">>}],
       [name |-> "last",
        keywords |-> {<<"l","a","s","t">>,
                      <<"l","a","t","e","s","t">>,
                      <<"m","o","s","t"," ","r","e","c","e","n","t">>,
                      <<"n","e","w","e","s","t">>}],
       [name |-> "average",
        keywords |-> {<<"a","v","e","r","a","g","e">>,
                      <<"m","e","a","n">>,
                      <<"t","y","p","i","c","a","l">>}],
       [name |-> "trend",
        keywords |-> {<<"t","r","e","n","d">>,
                      <<"p","a","t","t","e","r","n">>,
                      <<"o","v","e","r"," ","t","i","m","e">>,
                      <<"c","h","a","n","g","e">>}],
       [name |-> "comparison",
        keywords |-> {<<"c","o","m","p","a","r","e">>,
                      <<"d","i","f","f","e","r","e","n","c","e">>,
                      <<"v","e","r","s","u","s">>,
                      <<"v","s">>}],
       [name |-> "count",
        keywords |-> {<<"c","o","u","n","t">>,
                      <<"t","o","t","a","l">>,
                      <<"s","u","m">>,
                      <<"h","o","w"," ","m","a","n","y">>}],
       [name |-> "outlier",
        keywords |-> {<<"o","u","t","l","i","e","r">>,
                      <<"a","n","o","m","a","l","y">>,
                      <<"u","n","u","s","u","a","l">>,
                      <<"a","b","n","o","r","m","a","l">>}],
       [name |-> "schema",
        keywords |-> {<<"s","c","h","e","m","a">>,
                      <<"s","t","r","u","c","t","u","r","e">>,
                      <<"f","i","e","l","d","s">>,
                      <<"k","e","y","s">>,
                      <<"d","a","t","a"," ","t","y","p","e","s">>,
                      <<"f","o","r","m","a","t">>}]
    >>

\* a keyword of category i occurs in the lowercased message
C17_Matches(i, message) ==
    \E keyword \in C17_Categories[i].keywords : Contains(keyword, lower(message))

\* the first category whose keyword set matches, general when none does
C17_FirstCategory(message) ==
    LET matching == {i \in 1..Len(C17_Categories) : C17_Matches(i, message)}
    IN  IF matching = {} THEN "general"
        ELSE C17_Categories[CHOOSE i \in matching : \A j \in matching : i <= j].name

\* C17: the Analysis-Type Detector returns, for every message, the first
\* category in the order maximum, minimum, first, last, average, trend,
\* comparison, count, outlier, schema whose keyword set has a member that
\* occurs in the lowercased message, and general when no set matches: the
\* analysis_type the adapter records for a non-empty batch is that
\* category.
C17_DetectorPriority ==
    (Prepared /\ Len(db_data.data) > 0)
       => /\ "structure" \in db_data.keys
          /\ db_data.structure.analysis_type = C17_FirstCategory(user_message)

\* the adapter has recorded maximum for "highest average price", a message
\* that holds both "highest" and "average"
C17_Witness ==
    /\ Prepared
    /\ Len(db_data.data) > 0
    /\ user_message = amsg_highest_average
    /\ Contains(<<"a","v","e","r","a","g","e">>, user_message)
    /\ Contains(<<"h","i","g","h","e","s","t">>, user_message)
    /\ db_data.structure.analysis_type = "maximum"

----------------------------------------------------------------------------
(* Properties of schema inference, under SpecSchema (C12: under Spec). *)

\* _extract_schema_from_documents has returned
Extracted == entry = "schema" /\ pc = "extracted"

\* C11: schema inference on an empty batch returns exactly the message
\* object {"message": "No documents available to extract schema"}, never
\* an object with empty "fields" or "metadata"; on every non-empty batch
\* it returns an object with "metadata" and "fields" whose
\* metadata.total_documents is the size of the batch.
C11_EmptyBatchGivesMessage ==
    Extracted
       => IF documents = <<>>
          THEN /\ schema.keys = {"message"}
               /\ schema.message =
                     <<"N","o"," ","d","o","c","u","m","e","n","t","s"," ",
                       "a","v","a","i","l","a","b","l","e"," ","t","o"," ",
                       "e","x","t","r","a","c","t"," ","s","c","h","e","m","a">>
          ELSE /\ schema.keys = {"metadata", "fields"}
               /\ schema.metadata.total_documents = Len(documents)

\* schema inference has returned for the empty batch
C11_Witness ==
    /\ Extracted
    /\ documents = <<>>
    /\ schema.keys = {"message"}
    /\ schema.message = m_no_documents

\* C12: through the query router, when a collection that is in the
\* catalog and holds no documents ("logs") is queried for its schema, the
\* result of query_database is, or carries as its schema, the message
\* {"message": "No documents available to extract schema"}.
C12_EmptyCollectionSchemaMessage ==
    (/\ entry = "agents"
     /\ pc = "routed"
     /\ user_message = msg_schema_logs
     /\ DictGet(returned, k_collection) = VStr(w_logs)
     /\ DictGet(returned, k_query_type) = VStr(w_query_documents)
     /\ InList(w_logs, catalog)
     /\ "error" \notin db_data.keys)
       => \/ /\ "message" \in db_data.keys
             /\ db_data.message = m_no_documents
          \/ /\ "schema" \in db_data.keys
             /\ db_data.schema.keys = {"message"}
             /\ db_data.schema.message = m_no_documents

\* a field name that holds neither "." nor "[]"
IsPlainName(field) == ~Contains(<<".">>, field) /\ ~Contains(<<"[","]">>, field)

\* the value a document has under a top-level key
DocValue(doc, field) == Get(doc.items, field)

\* the distinct members of a sequence, in first-seen order
RECURSIVE Distinct(_)
Distinct(seq) ==
    IF seq = <<>> THEN <<>>
    ELSE LET front == Distinct(SubSeq(seq, 1, Len(seq) - 1)) IN
         IF \E i \in 1..Len(front) : front[i] = seq[Len(seq)]
         THEN front ELSE Append(front, seq[Len(seq)])

\* the type names, as the schema names them, a top-level field takes in the
\* documents that have it, in document order
RECURSIVE C13_TypesSeen(_, _)
C13_TypesSeen(docs, field) ==
    IF docs = <<>> THEN <<>>
    ELSE LET front == C13_TypesSeen(SubSeq(docs, 1, Len(docs) - 1), field)
             doc == docs[Len(docs)]
         IN  IF HasKey(doc.items, field)
             THEN Append(front, get_type_name(DocValue(doc, field)))
             ELSE front

\* C13: for every top-level field and every batch, the type stored for the
\* field is the list of the distinct type names the field took across the
\* documents, in first-seen order, joined by " | ": each name once
\* (integer, string, integer gives "integer | string").  Stated for the
\* fields whose name holds neither "." nor "[]".
C13_TypeIsUnionOfDistinctTypes ==
    Extracted
       => \A i \in 1..Len(schema.fields) :
              IsPlainName(schema.fields[i].k)
                 => schema.fields[i].v.type
                       = join(<<" ","|"," ">>,
                              Distinct(C13_TypesSeen(documents, schema.fields[i].k)))

\* C14: for every non-empty batch, documents whose keys hold "." or "[]"
\* and documents with nested records or arrays of records included, every
\* field of the schema has 1 <= occurrence_count <= total_documents, so
\* that its occurrence rate lies in [0, 100].
C14_CountWithinTotal ==
    (Extracted /\ documents # <<>>)
       => \A i \in 1..Len(schema.fields) :
              /\ 1 <= schema.fields[i].v.count
              /\ schema.fields[i].v.count <= schema.metadata.total_documents

\* C15: in every schema returned for a non-empty batch, every field
\* (top-level, dotted or bracketed) carries a required flag, and required
\* is true exactly when the field's count equals metadata.total_documents.
C15_RequiredIffInEveryDocument ==
    (Extracted /\ documents # <<>>)
       => \A i \in 1..Len(schema.fields) :
              /\ "required" \in schema.fields[i].v.keys
              /\ schema.fields[i].v.required
                    <=> (schema.fields[i].v.count = schema.metadata.total_documents)

\* the schema of {"x": 1} and {"x": 2, "y": True}: x is required, y is not
C15_Witness ==
    /\ Extracted
    /\ documents = <<doc_x_int, doc_x_int_y>>
    /\ Get(schema.fields, f_x).required
    /\ ~Get(schema.fields, f_y).required
    /\ "required" \in Get(schema.fields, f_y).keys

\* the type naming of the claim
RECURSIVE C16_TypeName(_)
C16_TypeName(value) ==
    CASE value.t = "NoneType" -> <<"n","u","l","l">>
      [] value.t = "bool" -> <<"b","o","o","l","e","a","n">>
      [] value.t = "int" -> <<"i","n","t","e","g","e","r">>
      [] value.t = "float" -> <<"n","u","m","b","e","r">>
      [] value.t = "str" -> <<"s","t","r","i","n","g">>
      [] value.t = "list" /\ value.items = <<>> -> <<"a","r","r","a","y">>
      [] value.t = "list" /\ value.items # <<>> ->
            <<"a","r","r","a","y","<">> \o C16_TypeName(Head(value.items)) \o <<">">>
      [] value.t = "dict" -> <<"o","b","j","e","c","t">>
      [] OTHER -> value.s

\* C16: type naming is the total function null -> "null", boolean ->
\* "boolean" (never "integer"), integral number -> "integer", fractional
\* number -> "number", text -> "string", empty sequence -> "array",
\* non-empty sequence -> "array<T>" with T the type name of its first
\* element, record -> "object", anything else -> the name of its type.
\* Stated on the schema of one document: each top-level field whose name
\* holds neither "." nor "[]" is stored with the type name of its value.
C16_TypeNaming ==
    (Extracted /\ Len(documents) = 1)
       => \A i \in 1..Len(documents[1].items) :
              IsPlainName(documents[1].items[i].k)
                 => /\ HasKey(schema.fields, documents[1].items[i].k)
                    /\ Get(schema.fields, documents[1].items[i].k).type
                          = C16_TypeName(documents[1].items[i].v)

\* the schema of {"t": [], "f": 2.5, "o": datetime, "m": [1, "a"]}
C16_Witness ==
    /\ Extracted
    /\ documents = <<doc_misc>>
    /\ Get(schema.fields, f_t).type = n_array
    /\ Get(schema.fields, <<"f">>).type = n_number
    /\ Get(schema.fields, <<"o">>).type = <<"d","a","t","e","t","i","m","e">>
    /\ Get(schema.fields, <<"m">>).type
          = <<"a","r","r","a","y","<","i","n","t","e","g","e","r",">">>

----------------------------------------------------------------------------
(* Properties of the response sanitizer, under SpecSanitizer. *)

\* remove_questions_and_suggestions has returned
Sanitized == entry = "sanitizer" /\ pc = "sanitized"

\* the suggestion openers the sanitizer is to leave none of
C20_Openers ==
    {<<"W","o","u","l","d"," ","y","o","u"," ","l","i","k","e"," ">>,
     <<"D","o"," ","y","o","u"," ","w","a","n","t"," ">>,
     <<"I","f"," ","y","o","u","'","d"," ","l","i","k","e"," ">>,
     <<"I","f"," ","y","o","u"," ","n","e","e","d"," ">>,
     <<"L","e","t"," ","m","e"," ","k","n","o","w"," ","i","f"," ">>,
     <<"P","l","e","a","s","e"," ","l","e","t"," ","m","e"," ","k","n","o","w"," ">>,
     <<"I"," ","c","a","n"," ","h","e","l","p"," ","y","o","u"," ">>,
     <<"I"," ","c","a","n"," ","p","r","o","v","i","d","e"," ">>,
     <<"I"," ","c","a","n"," ","a","n","a","l","y","z","e"," ">>,
     <<"I"," ","c","a","n"," ","f","u","r","t","h","e","r"," ">>,
     <<"F","o","r"," ","m","o","r","e"," ","i","n","f","o","r","m","a","t","i","o","n"," ">>,
     <<"T","o"," ","l","e","a","r","n"," ","m","o","r","e"," ">>}

\* the text after position p of the input: a fragment that follows a
\* question mark and holds no "?" and no suggestion opener
C18_TrailingFragment(p) ==
    /\ response_text[p] = "?"
    /\ p < Len(response_text)
    /\ LET fragment == SubSeq(response_text, p + 1, Len(response_text))
       IN  /\ strip(fragment) # <<>>
           /\ ~Contains(<<"?">>, fragment)
           /\ \A opener \in C20_Openers : ~Contains(opener, fragment)

\* C18: the sanitizer removes only the question or suggestion sentence and
\* keeps the text around it: "Here is the result. Would you like more
\* details? Thanks" becomes "Here is the result. Thanks."; a trailing
\* fragment that follows a question mark and holds no "?" and no
\* suggestion opener is part of the output.
C18_KeepsTextAroundQuestion ==
    Sanitized
       => /\ response_text = <<"H","e","r","e"," ","i","s"," ","t","h","e"," ","r","e","s","u","l","t","."," ","W","o","u","l","d"," ","y","o","u"," ","l","i","k","e"," ","m","o","r","e"," ","d","e","t","a","i","l","s","?"," ","T","h","a","n","k","s">>
                => sanitized = <<"H","e","r","e"," ","i","s"," ","t","h","e"," ","r","e","s","u","l","t","."," ","T","h","a","n","k","s",".">>
          /\ \A p \in 1..Len(response_text) :
                 C18_TrailingFragment(p)
                    => Contains(strip(collapse_whitespace(
                                   SubSeq(response_text, p + 1, Len(response_text)))),
                                sanitized)

\* C19: for every input text the output of the sanitizer holds no
\* question mark.
C19_NoQuestionMark ==
    Sanitized => ~Contains(<<"?">>, sanitized)

\* the sanitizer was handed a text with a question mark and has returned
\* what is left of it: a text that is not empty
C19_Witness ==
    /\ Sanitized
    /\ Contains(<<"?">>, response_text)
    /\ sanitized # <<>>
    /\ ~Contains(<<"?">>, sanitized)

\* C20: for every input text the output of the sanitizer holds none of
\* the suggestion openers, also when the suggestion is the last sentence
\* and has no terminal punctuation, spans a line break, or is put
\* together by the removal of another pattern.
C20_NoSuggestionOpener ==
    Sanitized => \A opener \in C20_Openers : ~Contains(opener, sanitized)

\* C21: for every input text that is not empty, the output of the
\* sanitizer ends in ".", "!" or "?"; only the empty input gives an output
\* that does not.
C21_EndsInTerminalPunctuation ==
    (Sanitized /\ response_text # <<>>)
       => /\ sanitized # <<>>
          /\ sanitized[Len(sanitized)] \in {".", "!", "?"}

\* C29: the sanitizer is idempotent: sanitizing its output once more
\* gives the same text.
C29_Idempotent ==
    Sanitized => remove_questions_and_suggestions(sanitized) = sanitized

----------------------------------------------------------------------------
(* Properties of the flattened fields of schema inference, under           *)
(* SpecSchema.                                                             *)

\* the record a document flattens under the top-level key parent, as its
\* entries: the record the key holds (dotted), or the first element of the
\* non-empty array the key holds when that element is a record (bracketed)
Flattened(doc, parent, bracketed) ==
    IF ~HasKey(doc.items, parent) THEN <<>>
    ELSE LET value == DocValue(doc, parent) IN
         IF ~bracketed /\ value.t = "dict" THEN value.items
         ELSE IF /\ bracketed
                 /\ value.t = "list"
                 /\ value.items # <<>>
                 /\ Head(value.items).t = "dict"
              THEN Head(value.items).items
              ELSE <<>>

\* the schema key of a flattened field
FlatName(parent, child, bracketed) ==
    parent \o (IF bracketed THEN <<"[","]",".">> ELSE <<".">>) \o child

\* the type names a flattened field takes in the documents whose parent
\* holds the child, in document order
RECURSIVE C26_TypesSeen(_, _, _, _)
C26_TypesSeen(docs, parent, child, bracketed) ==
    IF docs = <<>> THEN <<>>
    ELSE LET front == C26_TypesSeen(SubSeq(docs, 1, Len(docs) - 1), parent, child, bracketed)
             record == Flattened(docs[Len(docs)], parent, bracketed)
         IN  IF HasKey(record, child)
             THEN Append(front, get_type_name(Get(record, child)))
             ELSE front

\* every top-level key of every document of the batch is a plain name
PlainBatch ==
    \A d \in 1..Len(documents) : \A k \in Keys(documents[d].items) : IsPlainName(k)

\* C26: for a dotted field parent.child or a bracketed field
\* parent[].child, the type stored after the batch is the list of the
\* distinct type names the child took across the documents, in first-seen
\* order, joined by " | ", and its count is the number of documents in
\* which the parent holds the child.  Stated for the batches whose
\* top-level keys are plain names.
C26_FlattenedTypeIsUnion ==
    (Extracted /\ PlainBatch)
       => \A d \in 1..Len(documents) : \A parent \in Keys(documents[d].items) :
          \A bracketed \in BOOLEAN :
          \A child \in Keys(Flattened(documents[d], parent, bracketed)) :
              LET name == FlatName(parent, child, bracketed)
                  seen == C26_TypesSeen(documents, parent, child, bracketed)
              IN  /\ HasKey(schema.fields, name)
                  /\ Get(schema.fields, name).type = join(<<" ","|"," ">>, Distinct(seen))
                  /\ Get(schema.fields, name).count = Len(seen)

\* the dotted and bracketed keys one document gives
C27_FlatKeys(doc) ==
    UNION {{FlatName(parent, child, bracketed) :
               child \in Keys(Flattened(doc, parent, bracketed))} :
           parent \in Keys(doc.items), bracketed \in BOOLEAN}

\* the schema keys the claim allows for a batch: the top-level keys, a
\* dotted key for every direct child of a top-level record and a
\* bracketed key for every key of the first element of a top-level array
C27_ShallowKeys ==
    UNION {Keys(documents[d].items) \cup C27_FlatKeys(documents[d]) : d \in 1..Len(documents)}

\* the number of documents in which a key is a top-level key
C27_TopLevelCount(name) ==
    Cardinality({d \in 1..Len(documents) : HasKey(documents[d].items, name)})

\* C27: flattening is shallow: the keys of the schema are the top-level
\* keys, the dotted keys of the direct children of a top-level record and
\* the bracketed keys of the keys of the FIRST element of a top-level
\* array whose first element is a record; keys of later elements and
\* paths deeper than one level give no schema key.  A flattened field is
\* counted once for each document in which it is flattened so.
C27_FlatteningIsShallow ==
    (Extracted /\ documents # <<>>)
       => /\ Keys(schema.fields) = C27_ShallowKeys
          /\ \A d \in 1..Len(documents) : \A parent \in Keys(documents[d].items) :
             \A bracketed \in BOOLEAN :
             \A child \in Keys(Flattened(documents[d], parent, bracketed)) :
                 Get(schema.fields, FlatName(parent, child, bracketed)).count
                    = Len(C26_TypesSeen(documents, parent, child, bracketed))
                      + C27_TopLevelCount(FlatName(parent, child, bracketed))

\* the schema of {"t": [{"k": 1}, {"z": 2}], "t[].k": None} and
\* {"a": {"b": {"c": 1}}}: it has t[].k and a.b, and neither t[].z nor
\* a.b.c
C27_Witness ==
    /\ Extracted
    /\ documents = <<doc_array, doc_deep>>
    /\ HasKey(schema.fields, f_t_k)
    /\ HasKey(schema.fields, f_a_b)
    /\ ~HasKey(schema.fields, <<"t","[","]",".","z">>)
    /\ ~HasKey(schema.fields, <<"a",".","b",".","c">>)

----------------------------------------------------------------------------
(* Properties of the fallback of the classifiers, under Spec. *)

\* the keywords and the stopwords of the fallback, as the claim lists them
C28_Keywords ==
    {<<"d","a","t","a","b","a","s","e">>,
     <<"c","o","l","l","e","c","t","i","o","n">>,
     <<"d","a","t","a">>,
     <<"q","u","e","r","y">>,
     <<"f","i","n","d">>,
     <<"s","e","a","r","c","h">>,
     <<"l","i","s","t">>,
     <<"m","o","n","g","o","d","b">>}

C28_Stopwords ==
    {<<"f","r","o","m">>,
     <<"w","h","e","r","e">>,
     <<"w","h","a","t">>,
     <<"w","h","e","n">>,
     <<"h","o","w">>,
     <<"s","h","o","w">>,
     <<"g","e","t">>,
     <<"f","i","n","d">>,
     <<"q","u","e","r","y">>}

\* the first token at index >= 1 (the first token has index 0) that is no
\* stopword, null when there is none
C28_Candidate(message) ==
    LET words == split(lower(message))
        free == {i \in 2..Len(words) : words[i] \notin C28_Stopwords}
    IN  IF free = {} THEN VNone
        ELSE VStr(words[CHOOSE i \in free : \A j \in free : i <= j])

\* the fallback decision the claim describes
C28_FallbackOk(decision) ==
    /\ Get(decision, k_is_database_question)
          = VBool(\E keyword \in C28_Keywords : Contains(keyword, lower(user_message)))
    /\ Get(decision, k_collection) = C28_Candidate(user_message)

\* C28: in both fallback situations of the classifier (no JSON span found;
\* a span found but every parsing attempt failed) is_database_question is
\* true iff the lowercased message contains one of database, collection,
\* data, query, find, search, list, mongodb, and the candidate collection
\* is the first whitespace-separated token at index >= 1 that is not in
\* the stopword set, null when there is none.
C28_FallbackHeuristics ==
    /\ (Classified /\ parse_path \in {"no_match", "error"}) => C28_FallbackOk(returned)
    /\ (ChatClassified /\ parse_path \in {"no_match", "error"})
          => C28_FallbackOk(normalized_json)

----------------------------------------------------------------------------
(* Properties of the answers of /chat and of the pipeline, under Spec. *)

\* chat has returned
ChatAnswered == entry = "chat" /\ pc \in {"chat_responded", "chat_apology"}

\* the answers of chat that are a ChatResponse carrying a text
C22_TextReplies ==
    {"analysis", "issue", "collections", "data", "agent_response", "raw", "no_data",
     "conversation", "apology"}

\* C22: no exception leaves POST /chat: whichever collaborator call fails
\* (the intent engine, the catalog fetch, the collection query, the agent
\* run, the analysis engine, the conversation chain), the handler returns
\* a ChatResponse that carries a text.
C22_ChatNeverRaises ==
    entry = "chat"
       => /\ escaped = "none"
          /\ ChatAnswered => reply \in C22_TextReplies

\* chat has answered a request whose catalog fetch raised and whose
\* analysis raised after it: the fallback text that reports the issue
C22_Witness ==
    /\ ChatAnswered
    /\ db_fault = "get_collections"
    /\ reply = "issue"
    /\ escaped = "none"

\* C23: whenever the decision of a /chat request has
\* is_database_question = false, no database collaborator operation is
\* invoked while the request is handled, and the request is answered by
\* the conversation chain (or by the apology when the chain raises).
C23_NoDatabaseCallWhenNotDatabaseQuestion ==
    (/\ entry = "chat"
     /\ HasKey(normalized_json, k_is_database_question)
     /\ Get(normalized_json, k_is_database_question) = VBool(FALSE))
       => /\ db_calls = <<>>
          /\ db_data = NoDbData
          /\ pc \notin {"chat_routed"}
          /\ ChatAnswered => reply \in {"conversation", "apology"}

\* chat has answered "tell me a joke", which the engine classified as no
\* database question, from the conversation chain without any database
\* call
C23_Witness ==
    /\ ChatAnswered
    /\ user_message = msg_joke
    /\ HasKey(normalized_json, k_is_database_question)
    /\ Get(normalized_json, k_is_database_question) = VBool(FALSE)
    /\ reply = "conversation"
    /\ db_calls = <<>>

\* C25: if a database collaborator call (catalog fetch or collection
\* query) fails while a router handles a request, the result is the error
\* value only: it carries no documents, no schema and no catalog obtained
\* before the failure, and its text is not the text of an analysis engine
\* failure.
C25_FailureGivesErrorOnly ==
    (pc \in {"routed", "chat_routed"} /\ db_fault # "none")
       => /\ db_data.keys = {"error"}
          /\ db_data.error # e_analysis_error

\* C30: every document fetch of the routers is query_collection(name, no
\* filter, limit 10, skip 0); every batch that reaches the data adapter
\* from the pipeline has at most 10 documents: the adapter's size checks
\* (> 50, > 100) are false, no document is dropped and no sampling note
\* is attached.
C30_FetchLimitKeepsBatchSmall ==
    /\ \A i \in 1..Len(db_calls) :
           db_calls[i].op = "query_collection"
              => /\ db_calls[i].filter = "none"
                 /\ db_calls[i].limit = 10
                 /\ db_calls[i].skip = 0
    /\ (entry = "agents" /\ pc = "analyzed")
          => /\ Len(batch) <= 10
             /\ ~(Len(batch) > 50)
             /\ ~(Len(batch) > 100)
             /\ db_data.data = batch
             /\ "note" \notin db_data.keys

\* the adapter has been handed the 10 documents fetched from a collection
\* that holds more than 10, and has returned them all
C30_Witness ==
    /\ entry = "agents"
    /\ pc = "analyzed"
    /\ db_calls[Len(db_calls)].op = "query_collection"
    /\ Len(StoredDocuments(db_calls[Len(db_calls)].name)) > 10
    /\ Len(batch) = 10
    /\ db_data.data = batch

----------------------------------------------------------------------------
(* Properties of the conversation memory, under SpecMemory. *)

\* the place of a chat request in the order of completion
C24_Place(r) == CHOOSE i \in 1..Len(completed) : completed[i] = r

\* a history made of whole exchanges: every human message is followed at
\* once by the AI reply of the same request, and the exchanges stand in
\* the order in which their requests completed
C24_Serial(history) ==
    /\ Len(history) % 2 = 0
    /\ \A i \in 1..Len(history) :
           IF i % 2 = 1
           THEN /\ history[i].role = "human"
                /\ history[i + 1] = [role |-> "ai", request |-> history[i].request]
           ELSE history[i].role = "ai"
    /\ \A i, j \in 1..Len(history) :
           (i < j /\ history[i].role = "ai" /\ history[j].role = "ai")
              => /\ \E k \in 1..Len(completed) : completed[k] = history[i].request
                 /\ \E k \in 1..Len(completed) : completed[k] = history[j].request
                 /\ C24_Place(history[i].request) < C24_Place(history[j].request)

\* C24: with POST /chat, GET /history and DELETE /history requests
\* arriving concurrently on the shared memory, every history a reader
\* observes is made of whole exchanges (a human message followed at once
\* by its own AI reply) in the order of completion, and the memory never
\* holds an AI reply without its human message before it, also after a
\* clear.
C24_ReadersSeeWholeExchanges ==
    entry = "memory"
       => /\ \A r \in Requests :
                 (handlers[r].endpoint = "history" /\ handlers[r].step = "done")
                    => C24_Serial(observed[r])
          /\ \A i \in 1..Len(memory) :
                 memory[i].role = "ai"
                    => /\ i > 1
                       /\ memory[i - 1] = [role |-> "human", request |-> memory[i].request]
          /\ running = 0 => C24_Serial(memory)

\* a reader has observed the exchanges of two chat requests that arrived
\* with it: four messages
C24_Witness ==
    /\ entry = "memory"
    /\ \E r \in Requests :
           /\ handlers[r].endpoint = "history"
           /\ handlers[r].step = "done"
           /\ Len(observed[r]) = 4
           /\ observed[r][1].request # observed[r][3].request

====
